---- MODULE Spec2Model ----
(***************************************************************************)
(* Accessibility scoring and dynamic form probing (yaremiy/master).        *)
(*                                                                         *)
(* Two specifications share this module:                                   *)
(*   SpecCalc  applies the pure calculators (score aggregator, metric      *)
(*             calculators, scenario generation, field discovery filter)   *)
(*             to inputs drawn from bounded sets; the state is the last    *)
(*             call: the function, its argument and its result.            *)
(*   Spec      is the form probe: WebScraper._test_form_error_behavior     *)
(*             driving FormTester over the forms of a live page, one       *)
(*             document interaction at a time.                             *)
(*                                                                         *)
(* Python floats are modelled as exact rationals [n, d] in lowest terms;   *)
(* the decimal literals of the source are taken at their decimal value.    *)
(***************************************************************************)
EXTENDS Integers, Sequences, FiniteSets, TLC

VARIABLES
    fn, arg, res, phase,        \* SpecCalc: the call, its argument, its result
    page,                       \* the live document: its forms, each a list of fields
    pc,                         \* the probe's position
    fi,                         \* enumerate(forms): forms finished so far
    form_test_results,          \* WebScraper._test_form_error_behavior
    test_result,                \* the value test_form_error_behavior_systematic returned
    fields_data,                \* test_form_error_behavior_systematic
    field_test_results,
    field_idx,                          \* index of the field being probed
    test_scenarios,             \* _test_field_systematic
    field_result,
    scenario_idx,                          \* index of the scenario being run
    touched,                    \* history: fields a clear, fill or blur was issued against
    generated,                  \* history: fields scenarios were generated for
    threw,                      \* history: where the probe of the current form threw
    completed,                  \* history: fields of the current form fully probed
    role_alert_shown,           \* the document holds a role=alert element with text
    ev                          \* SpecEval: the evaluation in progress

calcVars == <<fn, arg, res, phase>>

probeVars ==
    <<page, pc, fi, form_test_results, test_result, fields_data, field_test_results, field_idx,
      test_scenarios, field_result, scenario_idx, touched, generated, threw, completed,
      role_alert_shown>>

vars == <<calcVars, probeVars, ev>>

(***************************************************************************)
(* Bounds of the model.                                                    *)
(***************************************************************************)
MetricGrid == 2
MaxEntries == 3
SubGrid == 10
ScoreGrid == 500
MaxNodes == 1
MaxImgs == 2
MaxMedia == 2
MaxElems == 2
MaxForms == 2
MaxLengthAttr == 5
MaxFieldResults == 2
MaxSentences == 4
HugeLength == 2000000000

(***************************************************************************)
(* Exact rationals.                                                        *)
(***************************************************************************)
Abs(x) == IF x < 0 THEN -x ELSE x

RECURSIVE GCD(_, _)
GCD(a, b) == IF b = 0 THEN a ELSE GCD(b, a % b)

R(n, d) ==
    LET g == GCD(Abs(n), d)
    IN  [n |-> IF n < 0 THEN -(Abs(n) \div g) ELSE n \div g, d |-> d \div g]

Zero == R(0, 1)
One == R(1, 1)
RAdd(a, b) == R(a.n * b.d + b.n * a.d, a.d * b.d)
RMul(a, b) == R(a.n * b.n, a.d * b.d)
RDiv(a, b) == R(a.n * b.d, a.d * b.n)
RLe(a, b) == a.n * b.d <= b.n * a.d
RLt(a, b) == a.n * b.d < b.n * a.d
RMin(a, b) == IF RLe(a, b) THEN a ELSE b
RMax(a, b) == IF RLe(b, a) THEN a ELSE b
InUnit(x) == RLe(Zero, x) /\ RLe(x, One)

\* dict.get(key, default)
Get(m, k, default) == IF k \in DOMAIN m THEN m[k] ELSE default

\* max(0, min(1, x))
Clamp01(x) == RMax(Zero, RMin(One, x))

(***************************************************************************)
(* ScoreCalculator (core/utils/calculator.py).                             *)
(***************************************************************************)
MetricNames ==
    {"alt_text", "contrast", "media_accessibility", "keyboard_navigation",
     "structured_navigation", "instruction_clarity", "input_assistance",
     "error_support", "localization"}

SubscoreNames == {"perceptibility", "operability", "understandability", "localization"}

perceptibility_raw(metrics) ==
    RDiv(RAdd(RAdd(RMul(Get(metrics, "alt_text", Zero), R(5, 10)),
                   RMul(Get(metrics, "contrast", Zero), R(5, 10))),
              RMul(Get(metrics, "media_accessibility", Zero), R(4, 10))),
         R(14, 10))

operability_raw(metrics) ==
    RAdd(RMul(Get(metrics, "keyboard_navigation", Zero), R(6, 10)),
         RMul(Get(metrics, "structured_navigation", Zero), R(4, 10)))

understandability_raw(metrics) ==
    RAdd(RAdd(RMul(Get(metrics, "instruction_clarity", Zero), R(4, 10)),
              RMul(Get(metrics, "input_assistance", Zero), R(3, 10))),
         RMul(Get(metrics, "error_support", Zero), R(3, 10)))

SubscoreClampMutant(x) == RMin(One, x)

SubscoreClamp(x) == Clamp01(x)

calculate_subscores(metrics) ==
    [perceptibility    |-> SubscoreClamp(perceptibility_raw(metrics)),
     operability       |-> SubscoreClamp(operability_raw(metrics)),
     understandability |-> SubscoreClamp(understandability_raw(metrics)),
     localization      |-> SubscoreClamp(Get(metrics, "localization", Zero))]

main_score(subscores) ==
    RAdd(RAdd(RMul(R(3, 10), Get(subscores, "perceptibility", Zero)),
              RMul(R(3, 10), Get(subscores, "operability", Zero))),
         RMul(R(4, 10), Get(subscores, "understandability", Zero)))

final_score_raw_mutant(subscores) ==
    RAdd(RMul(R(6, 10), main_score(subscores)),
         RMul(R(3, 10), Get(subscores, "localization", Zero)))

final_score_raw(subscores) ==
    RAdd(RMul(R(6, 10), main_score(subscores)),
         RMul(R(4, 10), Get(subscores, "localization", Zero)))

calculate_final_score(subscores) == Clamp01(final_score_raw(subscores))

\* "Відмінно", "Добре", "Задовільно", "Погано", "Дуже погано"
Levels == <<"Critical", "Poor", "Fair", "Good", "Excellent">>

get_quality_level_mutant(score) ==
    IF RLt(R(618, 1000), score) THEN "Excellent"
    ELSE IF RLe(R(382, 1000), score) THEN "Good"
    ELSE IF RLe(R(236, 1000), score) THEN "Fair"
    ELSE IF RLe(R(146, 1000), score) THEN "Poor"
    ELSE "Critical"

get_quality_level(score) ==
    IF RLe(R(618, 1000), score) THEN "Excellent"
    ELSE IF RLe(R(382, 1000), score) THEN "Good"
    ELSE IF RLe(R(236, 1000), score) THEN "Fair"
    ELSE IF RLe(R(146, 1000), score) THEN "Poor"
    ELSE "Critical"

\* get_quality_level of the API (api/app.py), the level of the pair it returns
api_get_quality_level(score) ==
    IF RLe(R(9, 10), score) THEN "Excellent"
    ELSE IF RLe(R(75, 100), score) THEN "Good"
    ELSE IF RLe(R(6, 10), score) THEN "Fair"
    ELSE IF RLe(R(4, 10), score) THEN "Poor"
    ELSE "Critical"

(***************************************************************************)
(* AccessibilityEvaluator.generate_recommendations (core/evaluator.py).    *)
(* A recommendation is named by the metric it is about.                    *)
(***************************************************************************)
\* the metrics with a recommendation, in the order the code tests them
recommendation_order ==
    <<"alt_text", "contrast", "keyboard_navigation", "instruction_clarity", "localization">>

recommendation_threshold(name) ==
    CASE name = "alt_text" -> R(8, 10)
      [] name = "contrast" -> R(7, 10)
      [] name = "keyboard_navigation" -> R(9, 10)
      [] name = "instruction_clarity" -> R(7, 10)
      [] name = "localization" -> R(6, 10)

\* metrics.get(name, 0) < threshold
NeedsRecommendationMutant(metrics, name) ==
    RLe(Get(metrics, name, Zero), recommendation_threshold(name))

NeedsRecommendation(metrics, name) ==
    RLt(Get(metrics, name, Zero), recommendation_threshold(name))

generate_recommendations(metrics) ==
    LET Needed(name) == NeedsRecommendation(metrics, name)
    IN  SelectSeq(recommendation_order, Needed)

(***************************************************************************)
(* PerceptibilityMetrics (core/metrics/perceptibility.py).                 *)
(*                                                                         *)
(* page_data as the calculators read it: axe_passes / axe_violations map a *)
(* rule id to the number of nodes of the first result with that id (a rule *)
(* without a result is outside the domain); html_empty says html_content   *)
(* is ''; imgs / imgs_alt count the <img> tags and those with an alt       *)
(* attribute; text_elements counts the elements with text the fallback     *)
(* finds; media_elements is the list of media records.                     *)
(***************************************************************************)
RECURSIVE SumOver(_, _)
SumOver(f, S) ==
    IF S = {} THEN 0
    ELSE LET x == CHOOSE y \in S : TRUE IN f[x] + SumOver(f, S \ {x})

\* len(result.get('nodes', [])) of the rule's result, 0 when there is none
_get_axe_rule_results(axe, rule_id) == IF rule_id \in DOMAIN axe THEN axe[rule_id] ELSE 0

AxeCount(axe, rules) == SumOver([r \in rules |-> _get_axe_rule_results(axe, r)], rules)

alt_related_rules == {"image-alt", "input-image-alt", "area-alt"}
contrast_rules == {"color-contrast", "color-contrast-enhanced"}
heading_rules == {"heading-order", "page-has-heading-one", "empty-heading"}

_fallback_alt_text_analysis(page_data) ==
    IF page_data.html_empty THEN One
    ELSE IF page_data.imgs = 0 THEN One
    ELSE R(page_data.imgs_alt, page_data.imgs)

calculate_alt_text_metric_mutant(page_data) ==
    LET correct_images == AxeCount(page_data.axe_passes, alt_related_rules)
        total_images == correct_images + AxeCount(page_data.axe_violations, alt_related_rules)
    IN  IF total_images = 0 THEN _fallback_alt_text_analysis(page_data)
        ELSE R(correct_images, total_images + 1)

calculate_alt_text_metric(page_data) ==
    LET correct_images == AxeCount(page_data.axe_passes, alt_related_rules)
        total_images == correct_images + AxeCount(page_data.axe_violations, alt_related_rules)
    IN  IF total_images = 0 THEN _fallback_alt_text_analysis(page_data)
        ELSE R(correct_images, total_images)

_fallback_contrast_analysis_mutant(page_data) == R(8, 10)

_fallback_contrast_analysis(page_data) ==
    IF page_data.html_empty THEN R(8, 10)
    ELSE IF page_data.text_elements = 0 THEN One
    ELSE R(8, 10)

calculate_contrast_metric(page_data) ==
    LET correct_elements == AxeCount(page_data.axe_passes, contrast_rules)
        total_elements == correct_elements + AxeCount(page_data.axe_violations, contrast_rules)
    IN  IF total_elements = 0 THEN _fallback_contrast_analysis(page_data)
        ELSE R(correct_elements, total_elements)

\* a media record: type, the kinds of its <track>s, has_captions
video_has_accessibility(video) ==
    IF video.type = "video"
    THEN \/ video.tracks \cap {"subtitles", "captions"} # {}
         \/ "descriptions" \in video.tracks
    ELSE video.type = "embedded_video" /\ video.has_captions

SelectIdx(seq, Test(_)) == {i \in 1..Len(seq) : Test(seq[i])}

IsVideo(elem) == elem.type \in {"video", "embedded_video"}

calculate_media_accessibility_metric(page_data) ==
    LET video_elements == SelectIdx(page_data.media_elements, IsVideo)
        accessible_videos ==
            {i \in video_elements : video_has_accessibility(page_data.media_elements[i])}
    IN  IF video_elements = {} THEN One
        ELSE R(Cardinality(accessible_videos), Cardinality(video_elements))

(***************************************************************************)
(* OperabilityMetrics (core/metrics/operability.py).                       *)
(***************************************************************************)
_is_keyboard_accessible(element) ==
    IF element.tag \in {"button", "a", "input", "select", "textarea"}
    THEN element.tabindex # "-1"
    ELSE IF element.role \in {"button", "link", "menuitem", "tab"}
    THEN element.tabindex # "None" /\ element.tabindex # "-1"
    ELSE element.tabindex # "None" /\ element.tabindex # "-1"

_fallback_keyboard_analysis(page_data) ==
    LET interactive_elements == page_data.interactive_elements
    IN  IF Len(interactive_elements) = 0 THEN One
        ELSE R(Cardinality(SelectIdx(interactive_elements, _is_keyboard_accessible)),
               Len(interactive_elements))

IsFocusable(result) == result.focusable

calculate_keyboard_navigation_metric(page_data) ==
    LET focus_test_results == page_data.focus_test_results
    IN  IF Len(focus_test_results) = 0 THEN _fallback_keyboard_analysis(page_data)
        ELSE R(Cardinality(SelectIdx(focus_test_results, IsFocusable)),
               Len(focus_test_results))

calculate_structured_navigation_metric(page_data) ==
    LET correct_headings == AxeCount(page_data.axe_passes, heading_rules)
        total_headings == correct_headings + AxeCount(page_data.axe_violations, heading_rules)
    IN  IF total_headings = 0 THEN One
        ELSE R(correct_headings, total_headings)

(***************************************************************************)
(* LocalizationMetrics (core/metrics/localization.py).                     *)
(* available_languages is the set _detect_available_languages returns.     *)
(***************************************************************************)
calculate_localization_metric_mutant(available_languages) ==
    LET s1 == IF "uk" \in available_languages THEN R(6, 10) ELSE Zero
        s2 == IF "en" \in available_languages THEN R(2, 10) ELSE Zero
        s3 == R(8 * Cardinality(available_languages \cap {"de", "fr"}), 100)
        s4 == IF available_languages \ {"uk", "en", "de", "fr"} # {} THEN R(4, 100) ELSE Zero
    IN  RMin(RAdd(RAdd(RAdd(s1, s2), s3), s4), One)

calculate_localization_metric(available_languages) ==
    LET s1 == IF "uk" \in available_languages THEN R(6, 10) ELSE Zero
        s2 == IF "en" \in available_languages THEN R(2, 10) ELSE Zero
        s3 == IF available_languages \cap {"de", "fr"} # {} THEN R(8, 100) ELSE Zero
        s4 == IF available_languages \ {"uk", "en", "de", "fr"} # {} THEN R(4, 100) ELSE Zero
    IN  RMin(RAdd(RAdd(RAdd(s1, s2), s3), s4), One)

(***************************************************************************)
(* UnderstandabilityMetrics (core/metrics/understandability.py).           *)
(*                                                                         *)
(* instructions is the list _extract_instructions_with_context returns,    *)
(* each entry carrying the verdict of the clarity classifier on its text.  *)
(* input_elements are the <input>/<textarea> tags of the HTML.  A form is  *)
(* the list of its input/textarea/select tags; a tag records the           *)
(* attributes the three phases read; alert_exists, live_region and         *)
(* script_keywords are facts of the whole page.                            *)
(***************************************************************************)
_assess_instruction_clarity_with_context(instruction_data) == instruction_data.clear

calculate_instruction_clarity_metric(page_data) ==
    LET instructions == page_data.instructions
    IN  IF Len(instructions) = 0 THEN One
        ELSE R(Cardinality(SelectIdx(instructions, _assess_instruction_clarity_with_context)),
               Len(instructions))

(***************************************************************************)
(* The clarity classifier.  A text is its sentences (the number of words   *)
(* of each), whether the last sentence ends with a terminator (. ! ?), the *)
(* length of its words, whether it holds one of the complex terms, and the *)
(* verdict of the readability formulas on it.  Every sentence but the last *)
(* ends with a terminator, which is attached to the sentence's last word.  *)
(***************************************************************************)
RECURSIVE SumInts(_)
SumInts(seq) == IF seq = <<>> THEN 0 ELSE Head(seq) + SumInts(Tail(seq))

\* len(instruction_text.split())
word_count(text) == SumInts(text.sentences)

\* the runs of terminators in the text
Terminators(text) ==
    IF text.terminated THEN Len(text.sentences) ELSE Len(text.sentences) - 1

\* len(re.split(r'[.!?]+', instruction_text.strip())): one piece more than
\* there are runs of terminators
sentence_count(text) == Terminators(text) + 1

\* len(instruction_text): the words, the terminators, the spaces between words
TextLength(text) ==
    word_count(text) * text.word_len + Terminators(text) + (word_count(text) - 1)

\* the words longer than limit; a word that ends a sentence carries its terminator
WordsLongerThan(text, limit) ==
    IF text.word_len > limit THEN word_count(text)
    ELSE IF text.word_len + 1 > limit THEN Terminators(text)
    ELSE 0

_is_simple_short_text(text) ==
    /\ ~text.complex_term
    /\ WordsLongerThan(text, 12) = 0

_assess_short_instruction(text) ==
    /\ _is_simple_short_text(text)
    /\ ~(word_count(text) * text.word_len + Terminators(text) > 8 * word_count(text))
    /\ ~(WordsLongerThan(text, 8) > 1)

\* the verdict of the textstat formulas, or of the fallback
_assess_long_instruction(text) == text.readable

\* the rule of the word-count tier of the text
TierRule(text) ==
    IF word_count(text) <= 3 THEN _is_simple_short_text(text)
    ELSE IF word_count(text) <= 8 THEN _assess_short_instruction(text)
    ELSE _assess_long_instruction(text)

_assess_instruction_clarity(text) ==
    IF TextLength(text) < 2 THEN FALSE
    ELSE IF TextLength(text) > 200 THEN FALSE
    ELSE IF ~(word_count(text) <= 25 /\ sentence_count(text) <= 3) THEN FALSE
    ELSE TierRule(text)

text_input_types ==
    {"text", "email", "password", "tel", "url", "search",
     "number", "date", "datetime-local", "month", "week", "time"}

\* element.get('type', 'text')
TypeOrText(element) == IF element.type = "None" THEN "text" ELSE element.type

CountsAsTextField(element) ==
    element.name = "textarea" \/ TypeOrText(element) \in text_input_types

HasAssistance(element) == CountsAsTextField(element) /\ element.assisted

calculate_input_assistance_metric(page_data) ==
    IF page_data.html_empty THEN One
    ELSE LET total_fields == Cardinality(SelectIdx(page_data.input_elements, CountsAsTextField))
             assisted_fields == Cardinality(SelectIdx(page_data.input_elements, HasAssistance))
         IN  IF total_fields > 0 THEN R(assisted_fields, total_fields) ELSE One

validation_types ==
    {"text", "email", "password", "tel", "url", "number", "date", "datetime-local"}

_field_needs_validation(field) ==
    \/ field.name = "textarea"
    \/ field.name = "input" /\ TypeOrText(field) \in validation_types
    \/ field.required_or_pattern

_phase1_basic_error_support_mutant(field, html_content) ==
    RAdd(RAdd(IF field.aria_invalid THEN R(1, 10) ELSE Zero,
              IF field.describedby = "resolves" THEN R(1, 10) ELSE Zero),
         IF html_content.alert_exists THEN R(1, 10) ELSE Zero)

_phase1_basic_error_support(field, html_content) ==
    RAdd(RAdd(RAdd(IF field.required_or_pattern THEN R(1, 10) ELSE Zero,
                   IF field.aria_invalid THEN R(1, 10) ELSE Zero),
              IF field.describedby = "resolves" THEN R(1, 10) ELSE Zero),
         IF html_content.alert_exists THEN R(1, 10) ELSE Zero)

\* a message: the length of its text, whether it holds a constructive word,
\* whether it holds a specific word
_assess_error_message_quality(message) ==
    IF message.len < 3 THEN Zero
    ELSE RMin(RAdd(RAdd(IF 10 <= message.len /\ message.len <= 100 THEN R(3, 10)
                        ELSE IF 5 <= message.len /\ message.len <= 150 THEN R(15, 100)
                        ELSE Zero,
                        IF message.constructive THEN R(4, 10) ELSE Zero),
                   IF message.specific THEN R(3, 10) ELSE Zero),
              One)

\* the non-empty texts of the elements aria-describedby resolves to
_find_error_messages_for_field(field) ==
    IF field.describedby = "resolves" THEN field.messages ELSE <<>>

RECURSIVE RSumSeq(_)
RSumSeq(seq) == IF seq = <<>> THEN Zero ELSE RAdd(Head(seq), RSumSeq(Tail(seq)))

_phase2_message_quality(field) ==
    LET error_messages == _find_error_messages_for_field(field)
    IN  IF Len(error_messages) = 0 THEN Zero
        ELSE RMul(RDiv(RSumSeq([i \in 1..Len(error_messages) |->
                                   _assess_error_message_quality(error_messages[i])]),
                       R(Len(error_messages), 1)),
                  R(3, 10))

_phase3_dynamic_validation(field, html_content) ==
    RAdd(IF html_content.live_region THEN R(15, 100) ELSE Zero,
         IF html_content.script_keywords \/ field.js_ref THEN R(15, 100) ELSE Zero)

_analyze_field_error_support(field, html_content) ==
    RMin(RAdd(RAdd(_phase1_basic_error_support(field, html_content),
                   _phase2_message_quality(field)),
              _phase3_dynamic_validation(field, html_content)),
         One)

_analyze_form_error_support_quality(form, html_content) ==
    LET validatable == {i \in 1..Len(form) : _field_needs_validation(form[i])}
        qualities == [i \in 1..Len(form) |->
                         IF i \in validatable
                         THEN _analyze_field_error_support(form[i], html_content)
                         ELSE Zero]
    IN  IF Len(form) = 0 THEN One
        ELSE IF validatable = {} THEN One
        ELSE RDiv(RSumSeq(qualities), R(Cardinality(validatable), 1))

\* the dynamic half: the mean quality of the results without an 'error' key
dynamic_average(form_error_test_results) ==
    LET ok == {i \in 1..Len(form_error_test_results) : ~form_error_test_results[i].error}
        q == [i \in 1..Len(form_error_test_results) |->
                 IF i \in ok THEN form_error_test_results[i].quality_score ELSE Zero]
    IN  IF ok = {} THEN Zero ELSE RDiv(RSumSeq(q), R(Cardinality(ok), 1))

calculate_error_support_metric_enhanced(page_data) ==
    IF page_data.html_empty THEN One
    ELSE LET forms == IF Len(page_data.forms) > 0 THEN page_data.forms
                      ELSE <<page_data.loose_fields>>
             static_average ==
                 RDiv(RSumSeq([i \in 1..Len(forms) |->
                                  _analyze_form_error_support_quality(forms[i], page_data)]),
                      R(Len(forms), 1))
             dyn == dynamic_average(page_data.form_error_test_results)
         IN  IF Len(page_data.forms) = 0 /\ Len(page_data.loose_fields) = 0 THEN One
             ELSE IF RLt(Zero, dyn)
             THEN RAdd(RMul(static_average, R(4, 10)), RMul(dyn, R(6, 10)))
             ELSE static_average

calculate_error_support_metric(page_data) ==
    IF page_data.form_elements = 0 THEN One
    ELSE calculate_error_support_metric_enhanced(page_data)

(***************************************************************************)
(* FormTester (core/utils/form_tester.py): the pure part.                  *)
(*                                                                         *)
(* An optional value (a JavaScript undefined / null, a Python None) is a   *)
(* set: {} for none, {v} for the value v.                                  *)
(*                                                                         *)
(* A DOM field carries the HTML attributes of the tag.  Its DOM properties *)
(* follow the element interfaces: HTMLInputElement has pattern, minLength, *)
(* maxLength, min and max ('' or -1 when the attribute is absent);         *)
(* HTMLTextAreaElement has minLength and maxLength but no pattern, min or  *)
(* max; HTMLSelectElement has none of them (the property reads undefined). *)
(***************************************************************************)
DomType(field) ==
    IF field.tag = "textarea" THEN "textarea"
    ELSE IF field.tag = "select" THEN "select-one"
    ELSE field.type

DomPattern(field) == IF field.tag = "input" THEN field.pattern ELSE FALSE

DomMinLength(field) == IF field.tag = "select" THEN {} ELSE {-1}

DomMaxLength(field) ==
    IF field.tag = "select" THEN {}
    ELSE IF field.maxlength = {} THEN {-1} ELSE field.maxlength

DomMin(field) ==
    IF field.tag = "input" THEN (IF field.min = {} THEN {""} ELSE field.min) ELSE {}

DomMax(field) ==
    IF field.tag = "input" THEN (IF field.max = {} THEN {""} ELSE field.max) ELSE {}

semantic_types == {"email", "number", "tel", "url", "date", "time", "datetime-local", "password"}

\* the isTestable expression of _discover_form_fields
isTestable(field) ==
    \/ field.required
    \/ DomPattern(field)
    \/ \E v \in DomMinLength(field) : v > 0
    \/ \E v \in DomMaxLength(field) : v > 0 /\ v < 524288
    \/ DomMin(field) # {""}
    \/ DomMax(field) # {""}
    \/ DomType(field) \in semantic_types

\* x || null
OrNullInt(x) == {v \in x : v # 0}
OrNullStr(x) == {v \in x : v # ""}

\* the descriptor _discover_form_fields returns for a field
Descriptor(field) ==
    [selector |-> field.id, type |-> DomType(field), required |-> field.required,
     maxLength |-> OrNullInt(DomMaxLength(field)),
     min |-> OrNullStr(DomMin(field)), max |-> OrNullStr(DomMax(field))]

_discover_form_fields(form) ==
    LET kept == SelectSeq(form, isTestable)
    IN  [i \in 1..Len(kept) |-> Descriptor(kept[i])]

\* a scenario: its kind ('type' in the source) and the length of its value
Scenario(kind, len) == [type |-> kind, len |-> len]

invalid_test_scenarios ==
    [email    |-> <<Scenario("empty", 0), Scenario("invalid_format", 3),
                    Scenario("incomplete", 5), Scenario("missing_local", 11),
                    Scenario("too_long", 264)>>,
     number   |-> <<Scenario("empty", 0), Scenario("non_numeric", 3),
                    Scenario("invalid_format", 8), Scenario("too_large", 21)>>,
     tel      |-> <<Scenario("empty", 0), Scenario("too_short", 3),
                    Scenario("invalid_chars", 12), Scenario("too_long", 50)>>,
     url      |-> <<Scenario("empty", 0), Scenario("invalid_format", 7),
                    Scenario("incomplete", 7), Scenario("unsupported_protocol", 13)>>,
     date     |-> <<Scenario("empty", 0), Scenario("invalid_date", 10),
                    Scenario("invalid_format", 8), Scenario("invalid_values", 10)>>,
     time     |-> <<Scenario("empty", 0), Scenario("invalid_time", 5),
                    Scenario("invalid_format", 8)>>,
     password |-> <<Scenario("empty", 0), Scenario("too_short", 3),
                    Scenario("whitespace_only", 3)>>,
     text     |-> <<Scenario("empty", 0), Scenario("whitespace_only", 3)>>,
     textarea |-> <<Scenario("empty", 0), Scenario("whitespace_only", 3)>>]

generic_scenarios == <<Scenario("empty", 0), Scenario("whitespace", 3)>>

\* float(s) succeeds
Numeric(s) == s \in {"5", "0"}

\* len(str(float(s) - 1)), len(str(float(s) + 1)): '4.0', '-1.0', '6.0', '1.0'
LenBelow(s) == IF s = "0" THEN 4 ELSE 3
LenAbove(s) == 3

KeepScenarioMutant(scenario, field_data) == TRUE

KeepScenario(scenario, field_data) == ~(scenario.type = "empty" /\ ~field_data.required)

\* scenarios[:3]
MaxScenarios == 3

ScenarioCapMutant(scenarios) == scenarios

ScenarioCap(scenarios) ==
    SubSeq(scenarios, 1, IF Len(scenarios) < MaxScenarios THEN Len(scenarios) ELSE MaxScenarios)

_generate_test_scenarios(field_data) ==
    LET base_scenarios ==
            IF field_data.type \in DOMAIN invalid_test_scenarios
            THEN invalid_test_scenarios[field_data.type]
            ELSE generic_scenarios
        Keep(s) == KeepScenario(s, field_data)
        filtered == SelectSeq(base_scenarios, Keep)
        exceeds == IF \E v \in field_data.maxLength : v > 0
                   THEN <<Scenario("exceeds_maxlength",
                                   (CHOOSE v \in field_data.maxLength : TRUE) + 10)>>
                   ELSE <<>>
        below == IF field_data.type = "number" /\ \E m \in field_data.min : Numeric(m)
                 THEN <<Scenario("below_min", LenBelow(CHOOSE m \in field_data.min : TRUE))>>
                 ELSE <<>>
        above == IF field_data.type = "number" /\ \E m \in field_data.max : Numeric(m)
                 THEN <<Scenario("above_max", LenAbove(CHOOSE m \in field_data.max : TRUE))>>
                 ELSE <<>>
    IN  ScenarioCap(filtered \o exceeds \o below \o above)

\* the signals _collect_error_signals returns, as the scoring reads them:
\* the four 'detected' flags and the three ARIA details
_empty_signals ==
    [html5_api |-> FALSE, aria_support |-> FALSE, aria_invalid |-> FALSE,
     describedby_content |-> FALSE, role_alert_elements |-> FALSE,
     dom_changes |-> FALSE, css_states |-> FALSE]

_calculate_scenario_quality_mutant(signals) ==
    LET aria_score ==
            RAdd(RAdd(IF signals.aria_invalid THEN R(15, 100) ELSE Zero,
                      IF signals.describedby_content THEN R(15, 100) ELSE Zero),
                 IF signals.role_alert_elements THEN R(5, 100) ELSE Zero)
    IN  RMin(RAdd(RAdd(RAdd(IF signals.html5_api THEN R(25, 100) ELSE Zero,
                            RMin(aria_score, R(35, 100))),
                       IF signals.dom_changes THEN R(25, 100) ELSE Zero),
                  IF signals.css_states THEN R(15, 100) ELSE Zero),
             One)

_calculate_scenario_quality(signals) ==
    LET aria_score ==
            RAdd(RAdd(IF signals.aria_invalid THEN R(15, 100) ELSE Zero,
                      IF signals.describedby_content THEN R(15, 100) ELSE Zero),
                 IF signals.role_alert_elements THEN R(5, 100) ELSE Zero)
    IN  RMin(RAdd(RAdd(RAdd(IF signals.html5_api THEN R(25, 100) ELSE Zero,
                            IF signals.aria_support THEN RMin(aria_score, R(35, 100))
                            ELSE Zero),
                       IF signals.dom_changes THEN R(25, 100) ELSE Zero),
                  IF signals.css_states THEN R(15, 100) ELSE Zero),
             One)

Channels == {"html5_api", "aria_support", "dom_changes", "css_states"}

FieldQualityCapMutant(x) == x

FieldQualityCap(x) == RMin(x, One)

_calculate_field_quality_score_mutant(a_field_result) ==
    LET n == Len(a_field_result.test_scenarios)
        avg_scenario_score ==
            RDiv(RSumSeq([i \in 1..n |-> a_field_result.test_scenarios[i].quality_score]),
                 R(n, 1))
        detection_methods == Cardinality(DOMAIN a_field_result.error_detection_summary)
        diversity_bonus == RMin(RMul(R(detection_methods, 1), R(1, 10)), R(2, 10))
    IN  IF n = 0 THEN Zero
        ELSE FieldQualityCap(RAdd(avg_scenario_score, diversity_bonus))

\* a_field_result: test_scenarios (scenario results), error_detection_summary
_calculate_field_quality_score(a_field_result) ==
    LET n == Len(a_field_result.test_scenarios)
        avg_scenario_score ==
            RDiv(RSumSeq([i \in 1..n |-> a_field_result.test_scenarios[i].quality_score]),
                 R(n, 1))
        detection_methods ==
            Cardinality({c \in Channels : a_field_result.error_detection_summary[c]})
        diversity_bonus == RMin(RMul(R(detection_methods, 1), R(1, 10)), R(2, 10))
    IN  IF n = 0 THEN Zero
        ELSE FieldQualityCap(RAdd(avg_scenario_score, diversity_bonus))

CountIdx(seq, Test(_)) == Cardinality(SelectIdx(seq, Test))

_compile_systematic_results_mutant(form_selector, results) ==
    LET total_fields == Len(results)
        Supported(f) == f.overall_support
        supported_fields == CountIdx(results, Supported)
        average_quality ==
            IF supported_fields > 0
            THEN RDiv(RSumSeq([i \in 1..total_fields |-> results[i].quality_score]),
                      R(supported_fields, 1))
            ELSE Zero
    IN  [form_selector |-> form_selector,
         total_fields |-> total_fields,
         supported_fields |-> supported_fields,
         quality_score |-> average_quality,
         field_results |-> results,
         detection_statistics |->
             [c \in Channels |->
                 Cardinality({i \in 1..total_fields :
                                 results[i].error_detection_summary[c]})]]

_compile_systematic_results(form_selector, results) ==
    LET total_fields == Len(results)
        Supported(f) == f.overall_support
        supported_fields == CountIdx(results, Supported)
        average_quality ==
            IF total_fields > 0
            THEN RDiv(RSumSeq([i \in 1..total_fields |-> results[i].quality_score]),
                      R(total_fields, 1))
            ELSE Zero
    IN  [form_selector |-> form_selector,
         total_fields |-> total_fields,
         supported_fields |-> supported_fields,
         quality_score |-> average_quality,
         field_results |-> results,
         detection_statistics |->
             [c \in Channels |->
                 Cardinality({i \in 1..total_fields :
                                 results[i].error_detection_summary[c]})]]

_create_systematic_result(reason, form_selector) ==
    [form_selector |-> form_selector,
     total_fields |-> 0,
     supported_fields |-> 0,
     quality_score |-> Zero,
     field_results |-> <<>>,
     detection_statistics |-> [c \in Channels |-> 0],
     reason |-> reason]

(***************************************************************************)
(* Inputs of the calculators.                                              *)
(***************************************************************************)
\* metric values on a grid, one step below 0 and one step above 1 included
MetricVals == {R(k, MetricGrid) : k \in (-1)..(MetricGrid + 1)}

\* metric dicts with at most MaxEntries keys
MetricMaps ==
    UNION {[D -> MetricVals] : D \in {S \in SUBSET MetricNames : Cardinality(S) <= MaxEntries}}

SubVals == {R(k, SubGrid) : k \in (-1)..(SubGrid + 1)}

\* the subscores of the worked example
ExampleSubscores ==
    [perceptibility |-> R(8, 10), operability |-> R(6, 10),
     understandability |-> R(7, 10), localization |-> R(5, 10)]

SubscoreMaps == UNION {[D -> SubVals] : D \in SUBSET SubscoreNames} \cup {ExampleSubscores}

\* a grid over [0,1], the thresholds and the score of the worked example
\* metric values of the recommendation inputs: the grid and the thresholds
RecommendationVals == MetricVals \cup {R(6, 10), R(7, 10), R(8, 10), R(9, 10)}

RecommendedNames == {recommendation_order[i] : i \in 1..Len(recommendation_order)}

RecommendationInputs ==
    UNION {[D -> RecommendationVals] :
              D \in {S \in SUBSET RecommendedNames : Cardinality(S) <= MaxEntries}}

Scores ==
    {R(k, ScoreGrid) : k \in 0..ScoreGrid}
    \cup {R(618, 1000), R(382, 1000), R(236, 1000), R(146, 1000), R(62, 100)}

SeqsUpTo(S, n) == UNION {[1..k -> S] : k \in 0..n}

AxeMaps(rules) == UNION {[D -> 0..MaxNodes] : D \in SUBSET rules}

HtmlImgFacts ==
    {[html_empty |-> TRUE, imgs |-> 0, imgs_alt |-> 0]}
    \cup {[html_empty |-> FALSE, imgs |-> i, imgs_alt |-> a] : i \in 0..MaxImgs, a \in 0..MaxImgs}

AltTextInputs ==
    {[axe_passes |-> p, axe_violations |-> v,
      html_empty |-> h.html_empty, imgs |-> h.imgs, imgs_alt |-> h.imgs_alt] :
        p \in AxeMaps(alt_related_rules), v \in AxeMaps(alt_related_rules),
        h \in {x \in HtmlImgFacts : x.imgs_alt <= x.imgs}}

ContrastInputs ==
    {[axe_passes |-> p, axe_violations |-> v,
      html_empty |-> h.html_empty, text_elements |-> h.text_elements] :
        p \in AxeMaps(contrast_rules), v \in AxeMaps(contrast_rules),
        h \in {[html_empty |-> TRUE, text_elements |-> 0]}
               \cup [html_empty : {FALSE}, text_elements : 0..MaxElems]}

HeadingInputs ==
    [axe_passes : AxeMaps(heading_rules), axe_violations : AxeMaps(heading_rules)]

MediaKinds ==
    {[type |-> "image", tracks |-> {}, has_captions |-> FALSE]}
    \cup [type : {"video"}, tracks : SUBSET {"subtitles", "descriptions", "chapters"},
          has_captions : {FALSE}]
    \cup [type : {"embedded_video"}, tracks : {{}}, has_captions : BOOLEAN]

MediaInputs == [media_elements : SeqsUpTo(MediaKinds, MaxMedia)]

InteractiveKinds ==
    [tag : {"button", "div"}, role : {"None", "button"}, tabindex : {"None", "-1", "0"}]

KeyboardInputs ==
    [focus_test_results : SeqsUpTo([focusable : BOOLEAN], MaxElems),
     interactive_elements : SeqsUpTo(InteractiveKinds, MaxElems)]

LanguageSets == SUBSET {"uk", "en", "de", "fr", "ru", "pl"}

\* the texts given to the clarity classifier
InstructionTexts ==
    [sentences : {q \in SeqsUpTo({1, 4, 9, 26}, MaxSentences) : Len(q) > 0},
     terminated : BOOLEAN,
     word_len : {1, 4, 9, 13},
     complex_term : BOOLEAN,
     readable : BOOLEAN]

InstructionInputs == [instructions : SeqsUpTo([clear : BOOLEAN], MaxElems)]

InputElementKinds ==
    [name : {"input", "textarea"}, type : {"None", "email", "checkbox"}, assisted : BOOLEAN]

InputAssistanceInputs ==
    [html_empty : BOOLEAN, input_elements : SeqsUpTo(InputElementKinds, MaxElems)]

Messages == [len : {2, 4, 7, 50, 120, 200}, constructive : BOOLEAN, specific : BOOLEAN]

GoodMessage == [len |-> 50, constructive |-> TRUE, specific |-> TRUE]
PoorMessage == [len |-> 7, constructive |-> FALSE, specific |-> FALSE]

StaticFields ==
    [name : {"input", "textarea", "select"}, type : {"None", "email", "checkbox"},
     required_or_pattern : BOOLEAN, aria_invalid : BOOLEAN,
     describedby : {"none", "dangling", "resolves"},
     messages : {<<>>, <<GoodMessage>>, <<PoorMessage, GoodMessage>>},
     js_ref : BOOLEAN]

PageFlags == [alert_exists : BOOLEAN, live_region : BOOLEAN, script_keywords : BOOLEAN]

PlainField(name, type, required) ==
    [name |-> name, type |-> type, required_or_pattern |-> required, aria_invalid |-> FALSE,
     describedby |-> "none", messages |-> <<>>, js_ref |-> FALSE]

RichField ==
    [name |-> "input", type |-> "None", required_or_pattern |-> TRUE, aria_invalid |-> TRUE,
     describedby |-> "resolves", messages |-> <<GoodMessage>>, js_ref |-> TRUE]

\* representative forms: no field, no validatable field, a bare required email
\* field, a fully supported field next to a bare textarea
FormPool ==
    {<<>>,
     <<PlainField("select", "None", FALSE), PlainField("input", "checkbox", FALSE)>>,
     <<PlainField("input", "email", TRUE)>>,
     <<RichField, PlainField("textarea", "None", FALSE)>>}

ResultPool ==
    {[error |-> TRUE, quality_score |-> Zero]}
    \cup [error : {FALSE}, quality_score : {Zero, R(1, 2), One}]

ErrorSupportInputs ==
    {[html_empty |-> e, form_elements |-> n, forms |-> f, loose_fields |-> l,
      form_error_test_results |-> r,
      alert_exists |-> g.alert_exists, live_region |-> g.live_region,
      script_keywords |-> g.script_keywords] :
        e \in BOOLEAN, n \in 0..1, f \in SeqsUpTo(FormPool, MaxForms),
        l \in {<<>>, <<PlainField("input", "email", TRUE)>>},
        r \in SeqsUpTo(ResultPool, MaxForms),
        g \in {x \in PageFlags : x.alert_exists = x.live_region}}

(***************************************************************************)
(* The form probe: WebScraper._test_form_error_behavior (web_scraper.py)   *)
(* calling FormTester.test_form_error_behavior_systematic for every form   *)
(* of the page.  Every call on the live document (get_attribute, count,    *)
(* evaluate, clear, fill, blur, wait_for_timeout) either returns or        *)
(* throws.  'a' * (maxLength + 10) either returns or raises MemoryError    *)
(* when the length is HugeLength or more.                                  *)
(* A field of the page carries, besides its attributes, how the document  *)
(* behaves when the probe operates on it: the signals it shows after an   *)
(* invalid value (shows) and the call that throws on it, if any (fails).  *)
(***************************************************************************)
AllSignals ==
    [html5_api |-> TRUE, aria_support |-> TRUE, aria_invalid |-> TRUE,
     describedby_content |-> TRUE, role_alert_elements |-> TRUE,
     dom_changes |-> TRUE, css_states |-> TRUE]

Html5Only == [_empty_signals EXCEPT !.html5_api = TRUE]

Steps == {"clear", "fill", "blur", "wait", "collect"}

DomField(tag, type, required, pattern, maxlength, shows, fails) ==
    [tag |-> tag, type |-> type, required |-> required, pattern |-> pattern,
     maxlength |-> maxlength, min |-> {}, max |-> {}, shows |-> shows, fails |-> fails,
     announces |-> FALSE]

\* <input type="text">
PlainInput == DomField("input", "text", FALSE, FALSE, {}, _empty_signals, "none")

\* <textarea></textarea>
PlainTextarea == DomField("textarea", "text", FALSE, FALSE, {}, _empty_signals, "none")

\* <input type="email" required aria-describedby=...> with a full error display
RequiredEmail == DomField("input", "email", TRUE, FALSE, {}, AllSignals, "none")

\* <input type="text" pattern=... maxlength="2000000000">
HugeMaxlength == DomField("input", "text", FALSE, TRUE, {HugeLength}, Html5Only, "none")

\* <input type="text" required> on which one call of the probe throws
Flaky(step) == DomField("input", "text", TRUE, FALSE, {}, Html5Only, step)

\* <input type="text" required> on a page whose script, when the field loses
\* focus with an invalid value, writes the message into a role="alert" region
\* of the document; the message stays there
Announcer ==
    [DomField("input", "text", TRUE, FALSE, {}, _empty_signals, "none")
        EXCEPT !.announces = TRUE]

ProbeFieldKinds ==
    {PlainInput, PlainTextarea, RequiredEmail, HugeMaxlength, Announcer}
    \cup {Flaky(step) : step \in Steps}

TwoFieldForms ==
    {<<RequiredEmail, HugeMaxlength>>,
     <<HugeMaxlength, RequiredEmail>>,
     <<PlainInput, PlainTextarea>>,
     <<RequiredEmail, PlainTextarea>>,
     <<Flaky("fill"), RequiredEmail>>,
     <<Flaky("collect"), Flaky("clear")>>}

\* env: "ok", or "missing" when the selector the scraper builds matches no
\* element, or the call on the form that throws
FormEnvs == {"missing", "form_id", "lookup", "discover"}

FormShapes ==
    {[env |-> e, fields |-> <<>>] : e \in FormEnvs}
    \cup {[env |-> "ok", fields |-> f] :
             f \in {<<>>} \cup {<<k>> : k \in ProbeFieldKinds} \cup TwoFieldForms}

WithId(field, f, i) == [id |-> <<f, i>>] @@ field

MkPage(shapes) ==
    [f \in 1..Len(shapes) |->
        [env |-> shapes[f].env,
         fields |-> [i \in 1..Len(shapes[f].fields) |-> WithId(shapes[f].fields[i], f, i)]]]

Pages == {MkPage(shapes) : shapes \in SeqsUpTo(FormShapes, MaxForms)}

\* the element a field selector denotes
Element(selector) == page[selector[1]].fields[selector[2]]

NoResult == <<>>

NewFieldResult(field_data) ==
    [selector |-> field_data.selector,
     type |-> field_data.type,
     test_scenarios |-> <<>>,
     error_detection_summary |-> [c \in Channels |-> FALSE],
     overall_support |-> FALSE,
     quality_score |-> Zero]

EvalIdle == ev = [pc |-> "idle"]

ProbeIdle ==
    /\ page = <<>>
    /\ pc = "idle"
    /\ fi = 0
    /\ form_test_results = <<>>
    /\ test_result = NoResult
    /\ fields_data = <<>>
    /\ field_test_results = <<>>
    /\ field_idx = 0
    /\ test_scenarios = <<>>
    /\ field_result = NoResult
    /\ scenario_idx = 0
    /\ touched = {}
    /\ generated = {}
    /\ threw = {}
    /\ completed = 0
    /\ role_alert_shown = FALSE

CalcIdle ==
    /\ fn = "none"
    /\ arg = <<>>
    /\ res = <<>>
    /\ phase = "idle"

Init ==
    /\ CalcIdle
    /\ EvalIdle
    /\ page \in Pages
    /\ pc = "scraper"
    /\ fi = 0
    /\ form_test_results = <<>>
    /\ test_result = NoResult
    /\ fields_data = <<>>
    /\ field_test_results = <<>>
    /\ field_idx = 0
    /\ test_scenarios = <<>>
    /\ field_result = NoResult
    /\ scenario_idx = 0
    /\ touched = {}
    /\ generated = {}
    /\ threw = {}
    /\ completed = 0
    /\ role_alert_shown = FALSE

this_form_selector == fi + 1

\* the except clause of test_form_error_behavior_systematic covers every call
\* the function makes
tester_catches_mutant(where) == where \in {"lookup", "discover"}

tester_catches(where) == where \in {"lookup", "discover", "generate"}

\* return from test_form_error_behavior_systematic
ReturnToScraper(result) ==
    /\ test_result' = result
    /\ pc' = "returned"

\* an exception inside test_form_error_behavior_systematic
TesterRaise(where) ==
    /\ threw' = threw \cup {where}
    /\ IF tester_catches(where)
       THEN ReturnToScraper(_create_systematic_result("error", this_form_selector))
       ELSE pc' = "scraper_except" /\ UNCHANGED test_result

\* for i, form in enumerate(forms): form.get_attribute('id') returns
GetFormId ==
    /\ pc = "scraper"
    /\ fi < Len(page)
    /\ page[fi + 1].env # "form_id"
    /\ pc' = "lookup"
    /\ threw' = {}
    /\ completed' = 0
    /\ fields_data' = <<>>
    /\ field_test_results' = <<>>
    /\ test_result' = NoResult
    /\ UNCHANGED <<page, fi, form_test_results, field_idx, test_scenarios, field_result, scenario_idx,
                   touched, generated>>
    /\ UNCHANGED <<calcVars, ev, role_alert_shown>>

\* form.get_attribute('id') throws
GetFormIdThrows ==
    /\ pc = "scraper"
    /\ fi < Len(page)
    /\ page[fi + 1].env = "form_id"
    /\ pc' = "scraper_except"
    /\ threw' = {"form_id"}
    /\ completed' = 0
    /\ fields_data' = <<>>
    /\ field_test_results' = <<>>
    /\ test_result' = NoResult
    /\ UNCHANGED <<page, fi, form_test_results, field_idx, test_scenarios, field_result, scenario_idx,
                   touched, generated>>
    /\ UNCHANGED <<calcVars, ev, role_alert_shown>>

\* the except clause of the form loop
ScraperExcept ==
    /\ pc = "scraper_except"
    /\ form_test_results' =
           Append(form_test_results,
                  [form_index |-> fi + 1, form_selector |-> this_form_selector,
                   error |-> TRUE, quality_score |-> Zero])
    /\ fi' = fi + 1
    /\ pc' = "scraper"
    /\ UNCHANGED <<page, test_result, fields_data, field_test_results, field_idx, test_scenarios,
                   field_result, scenario_idx, touched, generated, threw, completed>>
    /\ UNCHANGED <<calcVars, ev, role_alert_shown>>

\* test_result['form_index'] = i + 1; form_test_results.append(test_result)
ScraperAppend ==
    /\ pc = "returned"
    /\ form_test_results' = Append(form_test_results, test_result @@ [form_index |-> fi + 1])
    /\ fi' = fi + 1
    /\ pc' = "scraper"
    /\ UNCHANGED <<page, test_result, fields_data, field_test_results, field_idx, test_scenarios,
                   field_result, scenario_idx, touched, generated, threw, completed>>
    /\ UNCHANGED <<calcVars, ev, role_alert_shown>>

ScraperFinish ==
    /\ pc = "scraper"
    /\ fi = Len(page)
    /\ pc' = "done"
    /\ UNCHANGED <<page, fi, form_test_results, test_result, fields_data, field_test_results,
                   field_idx, test_scenarios, field_result, scenario_idx, touched, generated, threw, completed>>
    /\ UNCHANGED <<calcVars, ev, role_alert_shown>>

\* form_exists = await page.locator(this_form_selector).count() > 0
Lookup ==
    /\ pc = "lookup"
    /\ page[fi + 1].env # "lookup"
    /\ IF page[fi + 1].env # "missing"
       THEN pc' = "discover" /\ UNCHANGED test_result
       ELSE ReturnToScraper(_create_systematic_result("not found", this_form_selector))
    /\ UNCHANGED <<page, fi, form_test_results, fields_data, field_test_results, field_idx,
                   test_scenarios, field_result, scenario_idx, touched, generated, threw, completed>>
    /\ UNCHANGED <<calcVars, ev, role_alert_shown>>

LookupThrows ==
    /\ pc = "lookup"
    /\ page[fi + 1].env = "lookup"
    /\ TesterRaise("lookup")
    /\ UNCHANGED <<page, fi, form_test_results, fields_data, field_test_results, field_idx,
                   test_scenarios, field_result, scenario_idx, touched, generated, completed>>
    /\ UNCHANGED <<calcVars, ev, role_alert_shown>>

\* fields_data = await self._discover_form_fields(page, this_form_selector)
Discover ==
    /\ pc = "discover"
    /\ page[fi + 1].env # "discover"
    /\ LET found == _discover_form_fields(page[fi + 1].fields)
       IN  /\ fields_data' = found
           /\ IF Len(found) = 0
              THEN ReturnToScraper(_create_systematic_result("no fields", this_form_selector))
              ELSE pc' = "field" /\ UNCHANGED test_result
    /\ field_test_results' = <<>>
    /\ field_idx' = 1
    /\ UNCHANGED <<page, fi, form_test_results, test_scenarios, field_result, scenario_idx,
                   touched, generated, threw, completed>>
    /\ UNCHANGED <<calcVars, ev, role_alert_shown>>

DiscoverThrows ==
    /\ pc = "discover"
    /\ page[fi + 1].env = "discover"
    /\ TesterRaise("discover")
    /\ UNCHANGED <<page, fi, form_test_results, fields_data, field_test_results, field_idx,
                   test_scenarios, field_result, scenario_idx, touched, generated, completed>>
    /\ UNCHANGED <<calcVars, ev, role_alert_shown>>

\* 'a' * (field_data['maxLength'] + 10) may not fit in memory
GenerateMayRaise(field_data) == \E v \in field_data.maxLength : v >= HugeLength

\* _test_field_systematic up to its scenario loop
FieldStart ==
    /\ pc = "field"
    /\ field_idx <= Len(fields_data)
    /\ test_scenarios' = _generate_test_scenarios(fields_data[field_idx])
    /\ generated' = generated \cup {fields_data[field_idx].selector}
    /\ field_result' = NewFieldResult(fields_data[field_idx])
    /\ scenario_idx' = 1
    /\ pc' = "scenario"
    /\ UNCHANGED <<page, fi, form_test_results, test_result, fields_data, field_test_results,
                   field_idx, touched, threw, completed>>
    /\ UNCHANGED <<calcVars, ev, role_alert_shown>>

\* _generate_test_scenarios raises: nothing of _test_field_systematic catches it
FieldStartThrows ==
    /\ pc = "field"
    /\ field_idx <= Len(fields_data)
    /\ GenerateMayRaise(fields_data[field_idx])
    /\ TesterRaise("generate")
    /\ UNCHANGED <<page, fi, form_test_results, fields_data, field_test_results, field_idx,
                   test_scenarios, field_result, scenario_idx, touched, generated, completed>>
    /\ UNCHANGED <<calcVars, ev, role_alert_shown>>

\* the scenario being run
scenario == test_scenarios[scenario_idx]

\* the result _test_scenario returns from its try block
ScenarioResult(a_scenario, signals) ==
    [scenario |-> a_scenario,
     error_detected |-> \/ signals.html5_api
                        \/ signals.aria_support
                        \/ signals.dom_changes
                        \/ signals.css_states,
     signals |-> signals,
     failed |-> FALSE,
     quality_score |-> _calculate_scenario_quality(signals)]

FailedScenarioResultMutant(a_scenario) ==
    [scenario |-> a_scenario,
     error_detected |-> FALSE,
     signals |-> Html5Only,
     failed |-> TRUE,
     quality_score |-> Zero]

\* the result _test_scenario returns from its except clause
FailedScenarioResult(a_scenario) ==
    [scenario |-> a_scenario,
     error_detected |-> FALSE,
     signals |-> _empty_signals,
     failed |-> TRUE,
     quality_score |-> Zero]

AppendScenarioMutant(a_field_result, scenario_result) ==
    LET old == a_field_result.error_detection_summary
        new == IF scenario_result.error_detected
               THEN [c \in Channels |-> scenario_result.signals[c]]
               ELSE old
    IN  [a_field_result EXCEPT
            !.test_scenarios = Append(@, scenario_result),
            !.error_detection_summary = new]

\* the body of the scenario loop of _test_field_systematic after _test_scenario
AppendScenario(a_field_result, scenario_result) ==
    LET old == a_field_result.error_detection_summary
        new == IF scenario_result.error_detected
               THEN [c \in Channels |-> old[c] \/ scenario_result.signals[c]]
               ELSE old
    IN  [a_field_result EXCEPT
            !.test_scenarios = Append(@, scenario_result),
            !.error_detection_summary = new]

\* 5. overall_support and quality_score of _test_field_systematic
CrossCheck(a_field_result) ==
    [a_field_result EXCEPT
        !.overall_support = \E c \in Channels : a_field_result.error_detection_summary[c],
        !.quality_score = _calculate_field_quality_score(a_field_result)]

RecordScenario(scenario_result) ==
        /\ field_result' = AppendScenario(field_result, scenario_result)
        /\ scenario_idx' = scenario_idx + 1
        /\ pc' = "scenario"

\* _test_scenario is entered for the next scenario
ScenarioStart ==
    /\ pc = "scenario"
    /\ scenario_idx <= Len(test_scenarios)
    /\ pc' = "clear"
    /\ UNCHANGED <<page, fi, form_test_results, test_result, fields_data, field_test_results,
                   field_idx, test_scenarios, field_result, scenario_idx, touched, generated,
                   threw, completed>>
    /\ UNCHANGED <<calcVars, ev, role_alert_shown>>

AfterStepRestartMutant(step) ==
    CASE step = "clear" -> IF scenario.len > 0 THEN "fill" ELSE "blur"
      [] step = "fill" -> "blur"
      [] step = "blur" -> "wait"
      [] step = "wait" -> "clear"

AfterStepMutant(step) ==
    CASE step = "clear" -> "fill"
      [] step = "fill" -> "blur"
      [] step = "blur" -> "wait"
      [] step = "wait" -> "collect"

\* clear, then fill only when the value is not empty, then blur, then the wait
AfterStep(step) ==
    CASE step = "clear" -> IF scenario.len > 0 THEN "fill" ELSE "blur"
      [] step = "fill" -> "blur"
      [] step = "blur" -> "wait"
      [] step = "wait" -> "collect"

\* clear(), fill(value), blur() or wait_for_timeout(100) returns
StepReturns ==
    /\ pc \in {"clear", "fill", "blur", "wait"}
    /\ pc # Element(field_result.selector).fails
    /\ pc' = AfterStep(pc)
    /\ touched' = IF pc = "wait" THEN touched ELSE touched \cup {field_result.selector}
    /\ role_alert_shown' = (role_alert_shown
                               \/ (pc = "blur" /\ Element(field_result.selector).announces))
    /\ UNCHANGED <<page, fi, form_test_results, test_result, fields_data, field_test_results,
                   field_idx, test_scenarios, field_result, scenario_idx, generated, threw,
                   completed>>
    /\ UNCHANGED <<calcVars, ev>>

\* document.querySelectorAll('[role="alert"]') of _collect_error_signals: the
\* elements with text anywhere in the document count for the field
WithRoleAlerts(signals, shown) ==
    IF shown THEN [signals EXCEPT !.aria_support = TRUE, !.role_alert_elements = TRUE]
    ELSE signals

\* _collect_error_signals returns
Collect ==
    /\ pc = "collect"
    /\ pc # Element(field_result.selector).fails
    /\ RecordScenario(ScenarioResult(scenario,
                                     WithRoleAlerts(Element(field_result.selector).shows,
                                                    role_alert_shown)))
    /\ UNCHANGED <<page, fi, form_test_results, test_result, fields_data, field_test_results,
                   field_idx, test_scenarios, touched, generated, threw, completed>>
    /\ UNCHANGED <<calcVars, ev, role_alert_shown>>

\* a step of _test_scenario throws: its except clause returns the failed result
StepThrows ==
    /\ pc \in Steps
    /\ pc = Element(field_result.selector).fails
    /\ RecordScenario(FailedScenarioResult(scenario))
    /\ threw' = threw \cup {"scenario"}
    /\ touched' = IF pc \in {"clear", "fill", "blur"}
                  THEN touched \cup {field_result.selector} ELSE touched
    /\ UNCHANGED <<page, fi, form_test_results, test_result, fields_data, field_test_results,
                   field_idx, test_scenarios, generated, completed>>
    /\ UNCHANGED <<calcVars, ev, role_alert_shown>>

\* the end of _test_field_systematic and field_test_results.append(field_result)
FieldFinish ==
    /\ pc = "scenario"
    /\ scenario_idx > Len(test_scenarios)
    /\ field_test_results' = Append(field_test_results, CrossCheck(field_result))
    /\ field_idx' = field_idx + 1
    /\ completed' = completed + 1
    /\ pc' = "field"
    /\ UNCHANGED <<page, fi, form_test_results, test_result, fields_data, test_scenarios,
                   field_result, scenario_idx, touched, generated, threw>>
    /\ UNCHANGED <<calcVars, ev, role_alert_shown>>

\* return self._compile_systematic_results(form_selector, field_test_results)
Compile ==
    /\ pc = "field"
    /\ field_idx > Len(fields_data)
    /\ ReturnToScraper(_compile_systematic_results(this_form_selector, field_test_results))
    /\ UNCHANGED <<page, fi, form_test_results, fields_data, field_test_results, field_idx,
                   test_scenarios, field_result, scenario_idx, touched, generated, threw,
                   completed>>
    /\ UNCHANGED <<calcVars, ev, role_alert_shown>>

Next ==
    \/ GetFormId
    \/ GetFormIdThrows
    \/ ScraperExcept
    \/ ScraperAppend
    \/ ScraperFinish
    \/ Lookup
    \/ LookupThrows
    \/ Discover
    \/ DiscoverThrows
    \/ FieldStart
    \/ FieldStartThrows
    \/ ScenarioStart
    \/ StepReturns
    \/ Collect
    \/ StepThrows
    \/ FieldFinish
    \/ Compile

Spec == Init /\ [][Next]_vars

(***************************************************************************)
(* Inputs of the pure parts of the probe.                                  *)
(***************************************************************************)
\* library types and types the library does not know
FieldTypes ==
    DOMAIN invalid_test_scenarios \cup {"select-one", "checkbox", "search", "datetime-local"}

AttrStrings == {{}, {"5"}, {"0"}, {"x"}}

FieldDescriptors ==
    [selector : {<<1, 1>>}, type : FieldTypes, required : BOOLEAN,
     maxLength : {{}, {-1}, {MaxLengthAttr}}, min : AttrStrings, max : AttrStrings]

SignalCombos ==
    [html5_api : BOOLEAN, aria_support : BOOLEAN, aria_invalid : BOOLEAN,
     describedby_content : BOOLEAN, role_alert_elements : BOOLEAN,
     dom_changes : BOOLEAN, css_states : BOOLEAN]

AriaFull ==
    [_empty_signals EXCEPT !.aria_support = TRUE, !.aria_invalid = TRUE,
                           !.describedby_content = TRUE]

SignalPool == {_empty_signals, Html5Only, AriaFull, AllSignals}

\* what _test_scenario met: the signals collected, or a step that threw
Collected(signals) == [failed |-> FALSE, signals |-> signals]

StepFailed == [failed |-> TRUE, signals |-> _empty_signals]

OutcomePool == {Collected(signals) : signals \in SignalPool} \cup {StepFailed}

RECURSIVE RunScenarios(_, _)
\* the scenario loop of _test_field_systematic over the outcomes of _test_scenario
RunScenarios(a_field_result, outcomes) ==
    IF outcomes = <<>> THEN a_field_result
    ELSE RunScenarios(
             AppendScenario(a_field_result,
                            IF Head(outcomes).failed
                            THEN FailedScenarioResult(Scenario("whitespace", 3))
                            ELSE ScenarioResult(Scenario("whitespace", 3),
                                                Head(outcomes).signals)),
             Tail(outcomes))

BlankFieldResult == NewFieldResult([selector |-> <<1, 1>>, type |-> "text"])

FieldResults ==
    {RunScenarios(BlankFieldResult, outcomes) :
        outcomes \in SeqsUpTo(OutcomePool, MaxScenarios)}

CompileInputs ==
    SeqsUpTo({CrossCheck(RunScenarios(BlankFieldResult, outcomes)) :
                 outcomes \in SeqsUpTo({Collected(_empty_signals), Collected(Html5Only),
                                        Collected(AllSignals)}, 1)},
             MaxFieldResults)

(***************************************************************************)
(* SpecCalc: Init draws a function and its argument, the step applies it.  *)
(***************************************************************************)
CalcInit ==
    /\ ProbeIdle
    /\ EvalIdle
    /\ phase = "call"
    /\ res = <<>>
    /\ \/ fn = "calculate_subscores" /\ arg \in MetricMaps
       \/ fn = "calculate_final_score" /\ arg \in SubscoreMaps
       \/ fn = "get_quality_level" /\ arg \in Scores
       \/ fn = "api.get_quality_level" /\ arg \in Scores
       \/ fn = "alt_text" /\ arg \in AltTextInputs
       \/ fn = "contrast" /\ arg \in ContrastInputs
       \/ fn = "media_accessibility" /\ arg \in MediaInputs
       \/ fn = "keyboard_navigation" /\ arg \in KeyboardInputs
       \/ fn = "structured_navigation" /\ arg \in HeadingInputs
       \/ fn = "instruction_clarity" /\ arg \in InstructionInputs
       \/ fn = "input_assistance" /\ arg \in InputAssistanceInputs
       \/ fn = "error_support" /\ arg \in ErrorSupportInputs
       \/ fn = "localization" /\ arg \in LanguageSets
       \/ fn = "_analyze_field_error_support" /\ arg \in StaticFields \X PageFlags
       \/ fn = "_generate_test_scenarios" /\ arg \in FieldDescriptors
       \/ fn = "_calculate_scenario_quality" /\ arg \in SignalCombos
       \/ fn = "_calculate_field_quality_score" /\ arg \in FieldResults
       \/ fn = "_compile_systematic_results" /\ arg \in CompileInputs
       \/ fn = "generate_recommendations" /\ arg \in RecommendationInputs
       \/ fn = "_assess_instruction_clarity" /\ arg \in InstructionTexts
       \/ fn = "_test_field_systematic" /\ arg \in SeqsUpTo(OutcomePool, MaxScenarios)

Return(value) ==
    /\ phase = "call"
    /\ phase' = "done"
    /\ res' = value
    /\ UNCHANGED <<fn, arg>>
    /\ UNCHANGED <<probeVars, ev>>

CallSubscores == fn = "calculate_subscores" /\ Return(calculate_subscores(arg))

CallFinalScore == fn = "calculate_final_score" /\ Return(calculate_final_score(arg))

CallApiQualityLevel == fn = "api.get_quality_level" /\ Return(api_get_quality_level(arg))

CallQualityLevel == fn = "get_quality_level" /\ Return(get_quality_level(arg))

CallAltText == fn = "alt_text" /\ Return(calculate_alt_text_metric(arg))

CallContrast == fn = "contrast" /\ Return(calculate_contrast_metric(arg))

CallMedia == fn = "media_accessibility" /\ Return(calculate_media_accessibility_metric(arg))

CallKeyboard == fn = "keyboard_navigation" /\ Return(calculate_keyboard_navigation_metric(arg))

CallStructured ==
    fn = "structured_navigation" /\ Return(calculate_structured_navigation_metric(arg))

CallInstruction == fn = "instruction_clarity" /\ Return(calculate_instruction_clarity_metric(arg))

CallInputAssistance == fn = "input_assistance" /\ Return(calculate_input_assistance_metric(arg))

CallErrorSupport == fn = "error_support" /\ Return(calculate_error_support_metric(arg))

CallLocalization == fn = "localization" /\ Return(calculate_localization_metric(arg))

CallFieldErrorSupport ==
    fn = "_analyze_field_error_support" /\ Return(_analyze_field_error_support(arg[1], arg[2]))

CallGenerate == fn = "_generate_test_scenarios" /\ Return(_generate_test_scenarios(arg))

CallScenarioQuality ==
    fn = "_calculate_scenario_quality" /\ Return(_calculate_scenario_quality(arg))

CallFieldQuality ==
    fn = "_calculate_field_quality_score" /\ Return(_calculate_field_quality_score(arg))

CallCompile ==
    fn = "_compile_systematic_results" /\ Return(_compile_systematic_results(1, arg))

\* the field result _test_field_systematic returns for the outcomes of its scenarios
CallTestField ==
    fn = "_test_field_systematic"
    /\ Return(CrossCheck(RunScenarios(BlankFieldResult, arg)))

CallClarity ==
    fn = "_assess_instruction_clarity" /\ Return(_assess_instruction_clarity(arg))

CallRecommendations ==
    fn = "generate_recommendations" /\ Return(generate_recommendations(arg))

CalcNext ==
    \/ CallSubscores
    \/ CallFinalScore
    \/ CallQualityLevel
    \/ CallAltText
    \/ CallContrast
    \/ CallMedia
    \/ CallKeyboard
    \/ CallStructured
    \/ CallInstruction
    \/ CallInputAssistance
    \/ CallErrorSupport
    \/ CallLocalization
    \/ CallFieldErrorSupport
    \/ CallGenerate
    \/ CallScenarioQuality
    \/ CallFieldQuality
    \/ CallCompile
    \/ CallRecommendations
    \/ CallApiQualityLevel
    \/ CallClarity
    \/ CallTestField

SpecCalc == CalcInit /\ [][CalcNext]_vars

(***************************************************************************)
(* SpecEval: AccessibilityEvaluator.evaluate_accessibility and             *)
(* evaluate_html_content (core/evaluator.py).  The snapshot is obtained    *)
(* (scrape_page or _create_page_data_from_html), the four calculate_metrics*)
(* fill the metric map, the aggregator computes subscores and final score, *)
(* the recommendations and the detailed analysis are produced and the      *)
(* result is returned.  Obtaining the snapshot, a metric calculator and    *)
(* the detailed analysis may throw; fails names the call that does.  After *)
(* a successful return the calculators and the aggregator may be run a     *)
(* second time on the snapshot the evaluation holds.                       *)
(***************************************************************************)
\* self.weights and self.metric_weights of AccessibilityEvaluator.__init__
evaluator_weights ==
    [weights |-> [perceptibility |-> R(3, 10), operability |-> R(3, 10),
                  understandability |-> R(4, 10), localization |-> R(4, 10)],
     metric_weights |-> [alt_text |-> R(15, 100), contrast |-> R(15, 100),
                         media_accessibility |-> R(15, 100),
                         keyboard_navigation |-> R(5, 100),
                         structured_navigation |-> R(5, 100),
                         instruction_clarity |-> R(1, 10), input_assistance |-> R(1, 10),
                         error_support |-> R(1, 10), localization |-> R(15, 100)]]

\* metrics.update(...) of the four calculate_metrics
calculate_all_metrics(page_data) ==
    [alt_text              |-> calculate_alt_text_metric(page_data),
     contrast              |-> calculate_contrast_metric(page_data),
     media_accessibility   |-> calculate_media_accessibility_metric(page_data),
     keyboard_navigation   |-> calculate_keyboard_navigation_metric(page_data),
     structured_navigation |-> calculate_structured_navigation_metric(page_data),
     instruction_clarity   |-> calculate_instruction_clarity_metric(page_data),
     input_assistance      |-> calculate_input_assistance_metric(page_data),
     error_support         |-> calculate_error_support_metric(page_data),
     localization          |-> calculate_localization_metric(page_data.available_languages)]

\* page_data after the calculators ran: they only read it
page_data_after_metricsMutant(page_data) == [page_data EXCEPT !.media_elements = <<>>]

page_data_after_metrics(page_data) == page_data

BareVideo == [type |-> "video", tracks |-> {}, has_captions |-> FALSE]

\* the snapshots a page can yield
Snapshots ==
    {[html_empty |-> h.html_empty, imgs |-> h.imgs, imgs_alt |-> h.imgs_alt,
      text_elements |-> h.imgs,
      axe_passes |-> p, axe_violations |-> v,
      media_elements |-> m,
      focus_test_results |-> f, interactive_elements |-> <<>>,
      instructions |-> f_i,
      input_elements |-> <<>>,
      form_elements |-> Len(r), forms |-> [i \in 1..Len(r) |-> <<PlainField("input", "email", TRUE)>>],
      loose_fields |-> <<>>, form_error_test_results |-> r,
      alert_exists |-> FALSE, live_region |-> FALSE, script_keywords |-> FALSE,
      available_languages |-> l] :
        h \in {[html_empty |-> TRUE, imgs |-> 0, imgs_alt |-> 0],
               [html_empty |-> FALSE, imgs |-> 1, imgs_alt |-> 0]},
        p \in {<<>>, [x \in {"image-alt"} |-> 1]},
        v \in {<<>>, [x \in {"color-contrast"} |-> 1]},
        m \in {<<>>, <<BareVideo>>},
        f \in {<<>>, <<[focusable |-> FALSE]>>},
        f_i \in {<<>>, <<[clear |-> FALSE]>>},
        r \in {<<>>, <<[error |-> FALSE, quality_score |-> R(1, 2)]>>},
        l \in {{}, {"uk"}, {"uk", "en"}}}

EvalEntries == {"evaluate_accessibility", "evaluate_html_content"}

EvalFailures == {"none", "snapshot", "metrics", "analysis"}

NoValue == <<>>

EvalInit ==
    /\ CalcIdle
    /\ ProbeIdle
    /\ \E e \in EvalEntries, s \in Snapshots, f \in EvalFailures :
           ev = [pc |-> "snapshot", entry |-> e, source |-> s, fails |-> f, run |-> 1,
                 weights |-> evaluator_weights, page_data |-> NoValue,
                 metrics |-> NoValue, subscores |-> NoValue, final_score |-> NoValue,
                 recommendations |-> NoValue, first |-> NoValue, result |-> NoValue]

\* the try block of the two entry points covers every call they make
evaluator_catches_mutant(where) == where \in {"snapshot", "metrics"}

evaluator_catches(where) == where \in {"snapshot", "metrics", "analysis"}

\* an exception inside the entry point
EvalRaise(where) ==
    ev' = [ev EXCEPT !.pc = IF evaluator_catches(where) THEN "except" ELSE "raised"]

EvalStep(next) == /\ ev' = next
                  /\ UNCHANGED <<calcVars, probeVars>>

\* page_data = await scrape_page(url) / _create_page_data_from_html(...)
ObtainSnapshot ==
    /\ ev.pc = "snapshot"
    /\ ev.fails # "snapshot"
    /\ EvalStep([ev EXCEPT !.pc = "metrics", !.page_data = ev.source])

ObtainSnapshotThrows ==
    /\ ev.pc = "snapshot"
    /\ ev.fails = "snapshot"
    /\ EvalRaise("snapshot")
    /\ UNCHANGED <<calcVars, probeVars>>

\* metrics = await self.calculate_all_metrics(page_data)
CalculateMetrics ==
    /\ ev.pc = "metrics"
    /\ ev.fails # "metrics"
    /\ EvalStep([ev EXCEPT !.pc = "subscores",
                           !.metrics = calculate_all_metrics(ev.page_data),
                           !.page_data = page_data_after_metrics(ev.page_data)])

CalculateMetricsThrows ==
    /\ ev.pc = "metrics"
    /\ ev.fails = "metrics"
    /\ ev.run = 1
    /\ EvalRaise("metrics")
    /\ UNCHANGED <<calcVars, probeVars>>

\* subscores = self.calculator.calculate_subscores(metrics)
CalculateSubscores ==
    /\ ev.pc = "subscores"
    /\ EvalStep([ev EXCEPT !.pc = "final", !.subscores = calculate_subscores(ev.metrics)])

\* final_score = self.calculator.calculate_final_score(subscores)
CalculateFinal ==
    /\ ev.pc = "final"
    /\ EvalStep([ev EXCEPT !.pc = IF ev.run = 1 THEN "recommend" ELSE "recalculated",
                           !.final_score = calculate_final_score(ev.subscores)])

\* recommendations = self.generate_recommendations(metrics)
Recommend ==
    /\ ev.pc = "recommend"
    /\ EvalStep([ev EXCEPT !.pc = "analysis",
                           !.recommendations = generate_recommendations(ev.metrics)])

\* the success result, _generate_detailed_analysis included
ReturnSuccess ==
    /\ ev.pc = "analysis"
    /\ ev.fails # "analysis"
    /\ EvalStep([ev EXCEPT !.pc = "returned",
                           !.result = [status |-> "success", metrics |-> ev.metrics,
                                       subscores |-> ev.subscores,
                                       final_score |-> ev.final_score,
                                       recommendations |-> ev.recommendations]])

AnalysisThrows ==
    /\ ev.pc = "analysis"
    /\ ev.fails = "analysis"
    /\ EvalRaise("analysis")
    /\ UNCHANGED <<calcVars, probeVars>>

\* except Exception as e: return {'url': ..., 'error': str(e), 'status': 'error'}
ReturnError ==
    /\ ev.pc = "except"
    /\ EvalStep([ev EXCEPT !.pc = "returned",
                           !.result = [status |-> "error", error |-> ev.fails]])

\* the calculators and the aggregator run again on the same snapshot
Recalculate ==
    /\ ev.pc = "returned"
    /\ ev.run = 1
    /\ ev.result.status = "success"
    /\ EvalStep([ev EXCEPT !.pc = "metrics", !.run = 2,
                           !.first = [metrics |-> ev.metrics, subscores |-> ev.subscores,
                                      final_score |-> ev.final_score]])

EvalNext ==
    \/ ObtainSnapshot
    \/ ObtainSnapshotThrows
    \/ CalculateMetrics
    \/ CalculateMetricsThrows
    \/ CalculateSubscores
    \/ CalculateFinal
    \/ Recommend
    \/ ReturnSuccess
    \/ AnalysisThrows
    \/ ReturnError
    \/ Recalculate

SpecEval == EvalInit /\ [][EvalNext]_vars

(***************************************************************************)
(* Properties of the calculators, checked under SpecCalc.                  *)
(***************************************************************************)
Returned(name) == phase = "done" /\ fn = name

MetricCalls ==
    {"alt_text", "contrast", "media_accessibility", "keyboard_navigation",
     "structured_navigation", "instruction_clarity", "input_assistance",
     "error_support", "localization"}

\* C1: every score lies in [0,1]: each metric, each subscore for any metric
\* map (entries missing or out of range included), the final score, and the
\* scenario, field and form quality of the probe for every combination of
\* signals.
C1_ScoresInUnit ==
    phase = "done" =>
        /\ fn \in MetricCalls => InUnit(res)
        /\ fn = "_analyze_field_error_support" => InUnit(res)
        /\ fn = "calculate_subscores" => \A name \in SubscoreNames : InUnit(res[name])
        /\ fn = "calculate_final_score" => InUnit(res)
        /\ fn = "_calculate_scenario_quality" => InUnit(res)
        /\ fn = "_calculate_field_quality_score" => InUnit(res)
        /\ fn = "_compile_systematic_results" => InUnit(res.quality_score)

\* a metric map with a missing entry and an entry below 0 whose subscore is
\* held at 0
C1_Witness ==
    /\ Returned("calculate_subscores")
    /\ DOMAIN arg # MetricNames
    /\ "keyboard_navigation" \in DOMAIN arg
    /\ RLt(arg["keyboard_navigation"], Zero)
    /\ res.operability = Zero

\* C2: for subscores in [0,1] the final score is
\* 0.6 (0.3 perceptibility + 0.3 operability + 0.4 understandability)
\* + 0.4 localization; the worked example gives main 0.70 and final 0.62.
C2_FinalScoreFormula ==
    (/\ Returned("calculate_final_score")
     /\ DOMAIN arg = SubscoreNames
     /\ \A name \in SubscoreNames : InUnit(arg[name]))
    => /\ res = RAdd(RMul(R(6, 10),
                          RAdd(RAdd(RMul(R(3, 10), arg.perceptibility),
                                    RMul(R(3, 10), arg.operability)),
                               RMul(R(4, 10), arg.understandability))),
                     RMul(R(4, 10), arg.localization))
       /\ arg = ExampleSubscores => main_score(arg) = R(70, 100) /\ res = R(62, 100)

C2_Witness ==
    /\ Returned("calculate_final_score")
    /\ arg = ExampleSubscores
    /\ res = R(62, 100)

\* the lower bound of each level
LevelBound(level) ==
    CASE level = "Excellent" -> R(618, 1000)
      [] level = "Good" -> R(382, 1000)
      [] level = "Fair" -> R(236, 1000)
      [] level = "Poor" -> R(146, 1000)
      [] level = "Critical" -> Zero

LevelRank(level) == CHOOSE i \in 1..Len(Levels) : Levels[i] = level

LevelNames == {Levels[i] : i \in 1..Len(Levels)}

\* C3: every score in [0,1] maps to exactly one of the five ordered levels,
\* the one whose lower bound is the largest threshold not above the score;
\* a higher score never maps to a lower level; 0.62 maps to the top level,
\* whose bound is 0.618.
C3_QualityLevel ==
    Returned("get_quality_level") =>
        /\ res \in LevelNames
        /\ Cardinality(LevelNames) = 5
        /\ RLe(LevelBound(res), arg)
        /\ \A level \in LevelNames :
               RLe(LevelBound(level), arg) => RLe(LevelBound(level), LevelBound(res))
        /\ \A lower \in Scores :
               RLe(lower, arg) => LevelRank(get_quality_level(lower)) <= LevelRank(res)
        /\ arg = R(62, 100) => res = Levels[Len(Levels)] /\ LevelBound(res) = R(618, 1000)

C3_Witness ==
    /\ Returned("get_quality_level")
    /\ arg = R(62, 100)
    /\ res = "Excellent"

AxeTotal(page_data, rules) ==
    AxeCount(page_data.axe_passes, rules) + AxeCount(page_data.axe_violations, rules)

\* the populations of the metrics other than contrast are empty
EmptyPopulation ==
    \/ /\ fn = "alt_text"
       /\ AxeTotal(arg, alt_related_rules) = 0
       /\ arg.html_empty \/ arg.imgs = 0
    \/ fn = "media_accessibility" /\ arg.media_elements = <<>>
    \/ /\ fn = "keyboard_navigation"
       /\ arg.focus_test_results = <<>>
       /\ arg.interactive_elements = <<>>
    \/ fn = "structured_navigation" /\ AxeTotal(arg, heading_rules) = 0
    \/ fn = "instruction_clarity" /\ arg.instructions = <<>>
    \/ /\ fn = "input_assistance"
       /\ \A i \in 1..Len(arg.input_elements) : ~CountsAsTextField(arg.input_elements[i])
    \/ /\ fn = "error_support"
       /\ \/ arg.form_elements = 0
          \/ arg.html_empty
          \/ arg.forms = <<>> /\ arg.loose_fields = <<>>

\* the contrast rules report no element
NoContrastNodes == fn = "contrast" /\ AxeTotal(arg, contrast_rules) = 0

\* C4 (as the code behaves): with an empty population every metric is exactly
\* 1.0, except contrast: when the contrast rules report no element it is 1.0
\* only if the HTML is present and holds no text element, and 0.8 otherwise.
C4_EmptyPopulation ==
    phase = "done" =>
        /\ EmptyPopulation => res = One
        /\ NoContrastNodes =>
               res = IF ~arg.html_empty /\ arg.text_elements = 0 THEN One ELSE R(8, 10)

C4_Witness ==
    /\ phase = "done"
    /\ NoContrastNodes
    /\ ~arg.html_empty
    /\ arg.text_elements > 0
    /\ res = R(8, 10)

\* C4 as stated: with an empty population every metric is exactly 1.0,
\* contrast with no element reported by the contrast rules included.
C4_AsStated ==
    phase = "done" => (EmptyPopulation \/ NoContrastNodes => res = One)

\* C5: when the alternative-text rules report at least one node, alt_text is
\* pass nodes / (pass nodes + violation nodes) summed over those rules;
\* 1 pass and 1 violation give 0.5.
C5_AltTextRatio ==
    (Returned("alt_text") /\ AxeTotal(arg, alt_related_rules) >= 1) =>
        LET passes == AxeCount(arg.axe_passes, alt_related_rules)
            violations == AxeCount(arg.axe_violations, alt_related_rules)
        IN  /\ res.n * (passes + violations) = passes * res.d
            /\ res.d > 0
            /\ (passes = 1 /\ violations = 1) => res = R(1, 2)

C5_Witness ==
    /\ Returned("alt_text")
    /\ AxeCount(arg.axe_passes, alt_related_rules) = 1
    /\ AxeCount(arg.axe_violations, alt_related_rules) = 1
    /\ res = R(1, 2)

\* C6: for a field that is not required the scenario list has no scenario of
\* kind 'empty' and no scenario with an empty value, for every type and
\* every combination of constraints.
C6_NoEmptyScenario ==
    (Returned("_generate_test_scenarios") /\ ~arg.required) =>
        \A i \in 1..Len(res) : res[i].type # "empty" /\ res[i].len > 0

\* a non-required field of a library type, scenarios returned
C6_Witness ==
    /\ Returned("_generate_test_scenarios")
    /\ ~arg.required
    /\ arg.type = "email"
    /\ Len(res) > 0

\* C7: _generate_test_scenarios returns at most 3 scenarios for every field
\* descriptor.
C7_AtMostThree == Returned("_generate_test_scenarios") => Len(res) <= 3

\* a required number field with maxLength, min and max: six candidates, three kept
C7_Witness ==
    /\ Returned("_generate_test_scenarios")
    /\ arg.required
    /\ arg.type = "number"
    /\ arg.maxLength = {MaxLengthAttr}
    /\ arg.min = {"5"}
    /\ Len(res) = 3

(***************************************************************************)
(* Properties of the form probe, checked under Spec.                       *)
(***************************************************************************)
\* not required, no pattern, no length or range constraint, not of a
\* semantically validated type
NoConstraint(field) ==
    /\ ~field.required
    /\ ~field.pattern
    /\ field.maxlength = {}
    /\ field.min = {}
    /\ field.max = {}
    /\ ~(field.tag = "input" /\ field.type \in semantic_types)

\* C8 as stated: a field with no validation-relevant constraint is removed at
\* discovery: no scenario is generated for it and no clear, fill or blur is
\* issued against it.
C8_AsStated ==
    \A f \in 1..Len(page) : \A i \in 1..Len(page[f].fields) :
        NoConstraint(page[f].fields[i]) =>
            /\ page[f].fields[i].id \notin generated
            /\ page[f].fields[i].id \notin touched

\* the call of test_form_error_behavior_systematic has returned to the scraper
TesterReturned == pc = "returned"

\* every field result holds one scenario result per generated scenario
ScenariosAllRun ==
    \A i \in 1..Len(field_test_results) :
        Len(field_test_results[i].test_scenarios)
            = Len(_generate_test_scenarios(fields_data[i]))

\* after a field's probing failed, the results computed before are kept and
\* the other fields were probed
FieldsAllRun ==
    (TesterReturned /\ "generate" \in threw) =>
        /\ test_result.total_fields >= completed
        /\ \A i \in 1..Len(fields_data) :
               ~GenerateMayRaise(fields_data[i]) => fields_data[i].selector \in generated

\* every form of the page has a result when the scraper is done
FormsAllRun == pc = "done" => Len(form_test_results) = Len(page)

\* C9 as stated: a failure of one probe unit never aborts the others: the
\* remaining scenarios of the field still run, the remaining fields of the
\* form are still probed and the computed field results are kept, the
\* remaining forms are still probed.
C9_AsStated == ScenariosAllRun /\ FieldsAllRun /\ FormsAllRun

\* the fixed result: no field, zero quality, zero counts, a reason
FixedResult(result) ==
    /\ "reason" \in DOMAIN result
    /\ result.total_fields = 0
    /\ result.supported_fields = 0
    /\ result.quality_score = Zero
    /\ \A c \in Channels : result.detection_statistics[c] = 0

\* the exception the scraper handles did not come out of the tester
TesterNeverRaises == pc = "scraper_except" => threw = {"form_id"}

FormMissing == page[fi + 1].env = "missing"

NoTestableField == page[fi + 1].env = "ok" /\ fields_data = <<>>

\* C10 (as the code behaves): test_form_error_behavior_systematic never
\* raises; it returns the fixed result when the form does not exist, when no
\* testable field is discovered, or when a step outside the scenario handler
\* throws (the lookup, the discovery, the probing of a field outside
\* _test_scenario); a throw of a scenario step alone yields the compiled
\* result of the probed fields.
C10_FixedResult ==
    /\ TesterNeverRaises
    /\ TesterReturned =>
           IF FormMissing \/ NoTestableField \/ threw \cap {"lookup", "discover", "generate"} # {}
           THEN FixedResult(test_result)
           ELSE /\ "reason" \notin DOMAIN test_result
                /\ test_result.total_fields = Len(fields_data)
                /\ test_result.total_fields >= 1

\* a field was probed, the next one raised outside the scenario handler, the
\* fixed result was returned
C10_Witness ==
    /\ TesterReturned
    /\ "generate" \in threw
    /\ completed >= 1
    /\ FixedResult(test_result)

\* C10 as stated: never raises, and the fixed result whenever the form does
\* not exist, no testable field is discovered, or any step of the probe
\* throws.
C10_AsStated ==
    /\ TesterNeverRaises
    /\ (TesterReturned /\ (FormMissing \/ NoTestableField \/ threw # {}))
           => FixedResult(test_result)

SeqRange(seq) == {seq[i] : i \in 1..Len(seq)}

\* C14: generate_recommendations is monotonic: lowering one thresholded metric
\* from at or above its threshold to below it, the other metrics fixed, adds
\* that metric's recommendation and removes none that was present.
C14_RecommendationsMonotone ==
    Returned("generate_recommendations") =>
        \A name \in DOMAIN arg :
            ~RLt(arg[name], recommendation_threshold(name)) =>
                \A lower \in RecommendationVals :
                    RLt(lower, recommendation_threshold(name)) =>
                        LET lowered == generate_recommendations([arg EXCEPT ![name] = lower])
                        IN  /\ name \notin SeqRange(res)
                            /\ name \in SeqRange(lowered)
                            /\ SeqRange(res) \subseteq SeqRange(lowered)

\* alt_text exactly at its threshold next to a contrast below its own
C14_Witness ==
    /\ Returned("generate_recommendations")
    /\ DOMAIN arg = {"alt_text", "contrast"}
    /\ arg["alt_text"] = R(8, 10)
    /\ RLt(arg["contrast"], R(7, 10))
    /\ res = <<"contrast", "keyboard_navigation", "instruction_clarity", "localization">>

(***************************************************************************)
(* Properties of the evaluation, checked under SpecEval.                   *)
(***************************************************************************)
EvalReturned == ev.pc = "returned"

\* C11: evaluate_accessibility and evaluate_html_content never raise: they
\* return a result whose status is 'success', with metrics, subscores,
\* final_score and recommendations, or 'error', with an error message; a
\* failure to obtain the snapshot yields the 'error' result.
C11_StructuredResult ==
    /\ ev.pc # "raised"
    /\ EvalReturned =>
           /\ ev.result.status \in {"success", "error"}
           /\ ev.result.status = "success" =>
                  /\ {"metrics", "subscores", "final_score", "recommendations"}
                         \subseteq DOMAIN ev.result
                  /\ DOMAIN ev.result.metrics = MetricNames
                  /\ DOMAIN ev.result.subscores = SubscoreNames
                  /\ InUnit(ev.result.final_score)
                  /\ ev.fails = "none"
           /\ ev.result.status = "error" => "error" \in DOMAIN ev.result
           /\ ev.fails = "snapshot" => ev.result.status = "error"

\* the detailed analysis threw after every score was computed: 'error' result
C11_Witness ==
    /\ EvalReturned
    /\ ev.fails = "analysis"
    /\ ev.final_score # NoValue
    /\ ev.result.status = "error"

BareRequiredEmail ==
    /\ fn = "_analyze_field_error_support"
    /\ arg[1].name = "input"
    /\ arg[1].type = "email"
    /\ arg[1].required_or_pattern
    /\ ~arg[1].aria_invalid
    /\ arg[1].describedby = "none"
    /\ ~arg[1].js_ref
    /\ ~arg[2].alert_exists
    /\ ~arg[2].live_region
    /\ ~arg[2].script_keywords

\* C13 (as the code has it): the static three-phase score of a required email
\* field with no aria-invalid, no aria-describedby, no role=alert element, no
\* live region and no script validation is 0.1, the phase 1 award for the
\* required attribute.
C13_RequiredScoresTenth ==
    (phase = "done" /\ BareRequiredEmail) => res = R(1, 10)

C13_Witness == phase = "done" /\ BareRequiredEmail /\ res = R(1, 10)

\* C13 as stated: that score is 0.0
C13_AsStated ==
    (phase = "done" /\ BareRequiredEmail) => res = Zero

(***************************************************************************)
(* Properties of the scenario quality, checked under SpecCalc.             *)
(***************************************************************************)
\* the share of one signal, in hundredths
Hundredths(present, share) == IF present THEN share ELSE 0

AriaHundredths(signals) ==
    LET sum == Hundredths(signals.aria_invalid, 15)
               + Hundredths(signals.describedby_content, 15)
               + Hundredths(signals.role_alert_elements, 5)
    IN  IF sum < 35 THEN sum ELSE 35

WeightedHundredths(signals) ==
    Hundredths(signals.html5_api, 25)
    + (IF signals.aria_support THEN AriaHundredths(signals) ELSE 0)
    + Hundredths(signals.dom_changes, 25)
    + Hundredths(signals.css_states, 15)

NoChannel(signals) == \A c \in Channels : ~signals[c]

\* C20: _calculate_scenario_quality is 0.25 for html5_api, plus min(0.35,
\* 0.15 aria-invalid + 0.15 describedby text + 0.05 role=alert) when
\* aria_support is detected, plus 0.25 for dom_changes, plus 0.15 for
\* css_states; it is 1.0 exactly when all seven signals are present and 0.0
\* when no channel is detected.
C20_ScenarioQuality ==
    (phase = "done" /\ fn = "_calculate_scenario_quality") =>
        /\ res = R(WeightedHundredths(arg), 100)
        /\ res = One <=> arg = AllSignals
        /\ NoChannel(arg) => res = Zero

\* ARIA sub-signals present but the ARIA channel not detected: they add nothing
C20_Witness ==
    /\ phase = "done"
    /\ fn = "_calculate_scenario_quality"
    /\ arg = [AllSignals EXCEPT !.aria_support = FALSE]
    /\ res = R(65, 100)

(***************************************************************************)
(* Properties of _generate_test_scenarios, checked under SpecCalc.         *)
(***************************************************************************)
ScenarioTypes(scenarios) == {scenarios[i].type : i \in 1..Len(scenarios)}

\* C19 as stated: the scenarios returned by _generate_test_scenarios contain
\* exceeds_maxlength for every field with maxLength > 0, below_min for every
\* number field with a numeric min and above_max for every number field with
\* a numeric max.
C19_AsStated ==
    (phase = "done" /\ fn = "_generate_test_scenarios") =>
        /\ (\E v \in arg.maxLength : v > 0) => "exceeds_maxlength" \in ScenarioTypes(res)
        /\ (arg.type = "number" /\ \E m \in arg.min : Numeric(m))
               => "below_min" \in ScenarioTypes(res)
        /\ (arg.type = "number" /\ \E m \in arg.max : Numeric(m))
               => "above_max" \in ScenarioTypes(res)

(***************************************************************************)
(* Properties of the hybrid error support, checked under SpecCalc.         *)
(***************************************************************************)
\* the call reaches the combination of the static and the dynamic half
ReachesCombination ==
    /\ fn = "error_support"
    /\ ~arg.html_empty
    /\ arg.form_elements > 0
    /\ Len(arg.forms) > 0 \/ Len(arg.loose_fields) > 0

\* the mean static score of the forms of the page
MeanStatic(page_data) ==
    LET forms == IF Len(page_data.forms) > 0 THEN page_data.forms
                 ELSE <<page_data.loose_fields>>
    IN  RDiv(RSumSeq([i \in 1..Len(forms) |->
                         _analyze_form_error_support_quality(forms[i], page_data)]),
             R(Len(forms), 1))

\* C17 as stated: when dynamic results exist error_support is 0.4 x mean
\* static + 0.6 x mean dynamic, also when every dynamic quality is 0; it is
\* the static score alone only when no dynamic result exists.
C17_AsStated ==
    (phase = "done" /\ ReachesCombination) =>
        IF Len(arg.form_error_test_results) > 0
        THEN res = RAdd(RMul(MeanStatic(arg), R(4, 10)),
                        RMul(dynamic_average(arg.form_error_test_results), R(6, 10)))
        ELSE res = MeanStatic(arg)

\* the results with every failed probe replaced by a successful probe of
\* quality 0
ProbedWithQualityZero(results) ==
    [i \in 1..Len(results) |-> [error |-> FALSE, quality_score |-> results[i].quality_score]]

\* the mean of the quality_score of all results, failed probes included
MeanOfAll(results) ==
    RDiv(RSumSeq([i \in 1..Len(results) |-> results[i].quality_score]),
         R(Len(results), 1))

\* C18 as stated: a failed probe enters the dynamic average with quality 0
\* instead of being dropped, and never gives a higher error_support than the
\* same form probed successfully with quality 0.
C18_AsStated ==
    (phase = "done" /\ ReachesCombination /\ Len(arg.form_error_test_results) > 0) =>
        /\ dynamic_average(arg.form_error_test_results)
               = MeanOfAll(arg.form_error_test_results)
        /\ RLe(res,
               calculate_error_support_metric(
                   [arg EXCEPT !.form_error_test_results = ProbedWithQualityZero(@)]))

(***************************************************************************)
(* Properties of _test_scenario, checked under Spec.                       *)
(***************************************************************************)
\* the document operation issued next changes from one to another
Issues(step) == pc' = step /\ pc # step

ScenarioStepOrder ==
    /\ Issues("clear") => pc = "scenario"
    /\ Issues("fill") => pc = "clear" /\ scenario.len > 0
    /\ (pc = "clear" /\ pc' \in Steps \ {"clear"}) =>
           pc' = IF scenario.len > 0 THEN "fill" ELSE "blur"
    /\ Issues("blur") => pc \in {"clear", "fill"}
    /\ Issues("wait") => pc = "blur"
    /\ Issues("collect") => pc = "wait"
    /\ (pc \in Steps /\ pc' \notin Steps) => pc' = "scenario"

\* C16: for every scenario _test_scenario clears the field, then fills it
\* with the scenario value if and only if the value is not empty, then blurs,
\* then waits, then collects the signals; the signals are never collected
\* before the blur and the wait of the scenario have completed.
C16_StepOrder == [][ScenarioStepOrder]_vars

\* the signals of an empty-value scenario are being collected; no fill was
\* issued for it
C16_Witness ==
    /\ pc = "collect"
    /\ scenario.type = "empty"
    /\ scenario.len = 0
    /\ field_result.selector \in touched

(***************************************************************************)
(* Properties of the field results of the probe, checked under Spec.       *)
(***************************************************************************)
\* no channel was detected in any scenario of the field
NoSignalInAnyScenario(a_field_result) ==
    \A j \in 1..Len(a_field_result.test_scenarios) :
        NoChannel(a_field_result.test_scenarios[j].signals)

\* C12: a probed field for which no signal channel (html5_api, aria_support,
\* dom_changes, css_states) was detected in any of its scenarios has
\* quality_score 0.0 and overall_support False.
C12_NoSignalNoSupport ==
    \A i \in 1..Len(field_test_results) :
        NoSignalInAnyScenario(field_test_results[i]) =>
            /\ field_test_results[i].quality_score = Zero
            /\ ~field_test_results[i].overall_support

\* a field whose scenarios all ran to the collection and showed nothing
C12_Witness ==
    \E i \in 1..Len(field_test_results) :
        /\ Len(field_test_results[i].test_scenarios) > 0
        /\ \A j \in 1..Len(field_test_results[i].test_scenarios) :
               ~field_test_results[i].test_scenarios[j].failed
        /\ NoSignalInAnyScenario(field_test_results[i])
        /\ field_test_results[i].quality_score = Zero
        /\ ~field_test_results[i].overall_support

(***************************************************************************)
(* Properties of the field quality, checked under SpecCalc.                *)
(***************************************************************************)
\* the channels detected in at least one scenario of the field
ChannelsEverDetected(a_field_result) ==
    {c \in Channels : \E j \in 1..Len(a_field_result.test_scenarios) :
                          a_field_result.test_scenarios[j].signals[c]}

\* the mean of the scenario qualities, a failed scenario counting as 0
MeanScenarioQuality(a_field_result) ==
    LET n == Len(a_field_result.test_scenarios)
        counted == [j \in 1..n |->
                       IF a_field_result.test_scenarios[j].failed THEN Zero
                       ELSE _calculate_scenario_quality(
                                a_field_result.test_scenarios[j].signals)]
    IN  RDiv(RSumSeq(counted), R(n, 1))

DiversityBonus(a_field_result) ==
    LET tenths == Cardinality(ChannelsEverDetected(a_field_result))
    IN  R(IF tenths < 2 THEN tenths ELSE 2, 10)

\* C21: the quality_score of a field is min(1.0, mean of its scenario
\* qualities, failed scenarios counting as 0, + min(0.2, 0.1 x number of
\* distinct channels detected in at least one scenario)), and 0.0 when the
\* field ran no scenario.
C21_FieldQuality ==
    Returned("_calculate_field_quality_score") =>
        IF Len(arg.test_scenarios) = 0 THEN res = Zero
        ELSE res = RMin(One, RAdd(MeanScenarioQuality(arg), DiversityBonus(arg)))

\* a failed scenario between two that detected different channels; the
\* bonus is at its cap
C21_Witness ==
    /\ Returned("_calculate_field_quality_score")
    /\ Len(arg.test_scenarios) = 3
    /\ arg.test_scenarios[2].failed
    /\ Cardinality(ChannelsEverDetected(arg)) = 2
    /\ res = R(23, 60)

(***************************************************************************)
(* Properties of the field result, checked under SpecCalc.                 *)
(***************************************************************************)
\* C22: after a field has been probed each channel flag of its
\* error_detection_summary is true if and only if that channel was detected
\* in at least one scenario of the field, and overall_support is true if and
\* only if at least one channel flag is true.
C22_SummaryIsUnion ==
    Returned("_test_field_systematic") =>
        /\ Len(res.test_scenarios) = Len(arg)
        /\ \A c \in Channels :
               res.error_detection_summary[c] <=> c \in ChannelsEverDetected(res)
        /\ res.overall_support <=> \E c \in Channels : res.error_detection_summary[c]

\* two scenarios that detected different channels and one that detected none
C22_Witness ==
    /\ Returned("_test_field_systematic")
    /\ arg = <<Collected(Html5Only), Collected(_empty_signals), Collected(AriaFull)>>
    /\ res.error_detection_summary.html5_api
    /\ res.error_detection_summary.aria_support
    /\ ~res.error_detection_summary.dom_changes
    /\ res.overall_support

(***************************************************************************)
(* Properties of the compiled form result, checked under SpecCalc.         *)
(***************************************************************************)
\* the number of elements of seq that pass Test
HowMany(seq, Test(_)) == Cardinality({i \in 1..Len(seq) : Test(seq[i])})

\* C23: in every compiled form result supported_fields is the number of field
\* results with overall_support, quality_score is the mean of the field
\* quality scores, each channel count is the number of fields whose summary
\* has the channel set; so supported_fields <= total_fields and every channel
\* count <= supported_fields.
C23_CompiledCounts ==
    Returned("_compile_systematic_results") =>
        LET Supports(f) == f.overall_support
        IN  /\ res.total_fields = Len(arg)
            /\ res.supported_fields = HowMany(arg, Supports)
            /\ Len(arg) > 0 =>
                   RMul(res.quality_score, R(Len(arg), 1))
                       = RSumSeq([i \in 1..Len(arg) |-> arg[i].quality_score])
            /\ \A c \in Channels :
                   LET Detects(f) == f.error_detection_summary[c]
                   IN  /\ res.detection_statistics[c] = HowMany(arg, Detects)
                       /\ res.detection_statistics[c] <= res.supported_fields
            /\ res.supported_fields <= res.total_fields

\* a form with one field that shows nothing and one that shows only the
\* validity state
C23_Witness ==
    /\ Returned("_compile_systematic_results")
    /\ Len(arg) = 2
    /\ res.supported_fields = 1
    /\ res.detection_statistics.html5_api = 1
    /\ res.detection_statistics.aria_support = 0
    /\ res.quality_score = R(35, 200)

(***************************************************************************)
(* Properties of the localization metric, checked under SpecCalc.          *)
(***************************************************************************)
\* the weights of the tiers matched by the languages, in hundredths
TierHundredths(languages) ==
    Hundredths("uk" \in languages, 60)
    + Hundredths("en" \in languages, 20)
    + Hundredths("de" \in languages \/ "fr" \in languages, 8)
    + Hundredths(\E l \in languages : l \notin {"uk", "en", "de", "fr"}, 4)

\* C25: the localization metric is the sum of the matched tier weights: 0.6
\* for 'uk', 0.2 for 'en', 0.08 once for 'de' or 'fr' or both, 0.04 once for
\* any language outside {uk, en, de, fr}, clamped to 1.0; it is 0 when no
\* language is detected.
C25_TierSum ==
    Returned("localization") =>
        /\ res = RMin(R(TierHundredths(arg), 100), One)
        /\ arg = {} => res = Zero

\* German and French together with two other languages: each tier once
C25_Witness ==
    /\ Returned("localization")
    /\ arg = {"de", "fr", "ru", "pl"}
    /\ res = R(12, 100)

(***************************************************************************)
(* Properties of the clarity classifier, checked under SpecCalc.           *)
(***************************************************************************)
\* C26 as stated: a text with more than 25 words or more than 3 sentences is
\* unclear whatever its tier, and a text of 2 to 200 characters with at most
\* 25 words and at most 3 sentences is not rejected by the cap: its verdict is
\* that of the rule of its tier.
C26_AsStated ==
    Returned("_assess_instruction_clarity") =>
        /\ (word_count(arg) > 25 \/ Len(arg.sentences) > 3) => res = FALSE
        /\ ( /\ word_count(arg) <= 25
             /\ Len(arg.sentences) <= 3
             /\ TextLength(arg) >= 2
             /\ TextLength(arg) <= 200 ) => res = TierRule(arg)

(***************************************************************************)
(* Properties of the quality level, checked under SpecCalc.                *)
(***************************************************************************)
\* C27 as stated: for every score in [0,1] the level computed by the API's
\* get_quality_level is the level computed by
\* ScoreCalculator.get_quality_level.
C27_AsStated ==
    Returned("api.get_quality_level") => res = get_quality_level(arg)

(***************************************************************************)
(* Monotonicity of the error support in the probe quality, checked under   *)
(* SpecCalc.                                                               *)
(***************************************************************************)
\* the qualities a probe result can be raised to
RaisedQualities(quality) == {q \in {R(1, 2), One} : RLt(quality, q)}

\* C28 as stated: for a fixed static score and a fixed set of probed forms,
\* raising the quality_score of the probe result of any form, also from 0 to
\* a positive value, never lowers error_support.
C28_AsStated ==
    (Returned("error_support") /\ ReachesCombination) =>
        \A i \in 1..Len(arg.form_error_test_results) :
            ~arg.form_error_test_results[i].error =>
                \A q \in RaisedQualities(arg.form_error_test_results[i].quality_score) :
                    RLe(res,
                        calculate_error_support_metric(
                            [arg EXCEPT !.form_error_test_results[i].quality_score = q]))

(***************************************************************************)
(* Independence of the field results, checked under Spec.                  *)
(***************************************************************************)
\* the steps _test_scenario issues for a scenario
IssuedSteps(a_scenario) ==
    IF a_scenario.len > 0 THEN Steps ELSE Steps \ {"fill"}

\* what _test_scenario meets when the field is probed in a fresh document:
\* the step of the field that throws, or the signals the field shows
OwnOutcome(field, a_scenario) ==
    IF field.fails \in IssuedSteps(a_scenario) THEN StepFailed
    ELSE Collected(WithRoleAlerts(field.shows, field.announces))

RECURSIVE RunOwnScenarios(_, _, _)
RunOwnScenarios(a_field_result, field, scenarios) ==
    IF scenarios = <<>> THEN a_field_result
    ELSE LET outcome == OwnOutcome(field, Head(scenarios))
         IN  RunOwnScenarios(
                 AppendScenario(a_field_result,
                                IF outcome.failed THEN FailedScenarioResult(Head(scenarios))
                                ELSE ScenarioResult(Head(scenarios), outcome.signals)),
                 field, Tail(scenarios))

\* the result of the field when nothing was probed before it
ProbedAlone(field) ==
    CrossCheck(RunOwnScenarios(NewFieldResult(Descriptor(field)), field,
                               _generate_test_scenarios(Descriptor(field))))

\* the part of a field result the claim is about
Verdict(a_field_result) ==
    [error_detection_summary |-> a_field_result.error_detection_summary,
     overall_support |-> a_field_result.overall_support,
     quality_score |-> a_field_result.quality_score]

\* C29 as stated: the detected channels, overall_support and quality_score of
\* a probed field depend only on its descriptor and on the reaction of the
\* document to its own scenarios: they are the same whatever fields or forms
\* were probed before it.
C29_AsStated ==
    \A i \in 1..Len(field_test_results) :
        Verdict(field_test_results[i])
            = Verdict(ProbedAlone(Element(field_test_results[i].selector)))

(***************************************************************************)
(* Order and conservation of the probe, checked under Spec.                *)
(***************************************************************************)
StrictlySequential ==
    /\ Issues("clear") =>
           /\ pc = "scenario"
           /\ Len(field_result.test_scenarios) = scenario_idx - 1
    /\ (pc \in Steps /\ pc' # pc) => pc' \in Steps \cup {"scenario"}
    /\ (pc = "field" /\ pc' = "scenario") =>
           /\ Len(field_test_results) = field_idx - 1
           /\ field_idx = 1 \/ Len(field_result.test_scenarios) = Len(test_scenarios)
    /\ Issues("lookup") =>
           /\ pc = "scraper"
           /\ Len(form_test_results) = fi
           /\ fi > 0 => form_test_results[fi].form_index = fi

\* C24: the probe is strictly sequential: one document interaction at a
\* time; the first step of the next scenario starts only after the signals
\* of the previous scenario are collected and recorded, the first scenario of
\* the next field only after the last scenario of the previous field, and the
\* next form only after the result of the previous form is complete.
C24_Sequential == [][StrictlySequential]_vars

\* the second scenario of the second field of the second form is starting
C24_Witness ==
    /\ pc = "clear"
    /\ fi = 1
    /\ field_idx = 2
    /\ scenario_idx = 2
    /\ Len(field_test_results) = 1
    /\ Len(field_result.test_scenarios) = 1

\* a form result produced by _compile_systematic_results
Compiled(form_result) ==
    /\ "error" \notin DOMAIN form_result
    /\ "reason" \notin DOMAIN form_result

\* one scenario result for every generated scenario, in generation order
ScenariosConserved(a_field_result) ==
    LET made == _generate_test_scenarios(Descriptor(Element(a_field_result.selector)))
        ran == a_field_result.test_scenarios
    IN  /\ Len(ran) = Len(made)
        /\ Len(ran) >= 1
        /\ \A j \in 1..Len(ran) :
               /\ ran[j].scenario = made[j]
               /\ ran[j].failed =>
                      /\ ~ran[j].error_detected
                      /\ ran[j].signals = _empty_signals
                      /\ ran[j].quality_score = Zero

\* C30: every scenario generated for a field has exactly one recorded result,
\* in generation order, a failed one with error_detected false, empty signals
\* and quality 0.0; every probed field runs at least one scenario; a compiled
\* form result has total_fields equal to the number of testable fields
\* discovered; _test_form_error_behavior returns exactly one result per form
\* of the page, in page order.
C30_Conserved ==
    /\ \A i \in 1..Len(field_test_results) : ScenariosConserved(field_test_results[i])
    /\ Len(form_test_results) = fi
    /\ \A k \in 1..Len(form_test_results) :
           /\ form_test_results[k].form_index = k
           /\ form_test_results[k].form_selector = k
           /\ Compiled(form_test_results[k]) =>
                  /\ form_test_results[k].total_fields
                         = Len(_discover_form_fields(page[k].fields))
                  /\ Len(form_test_results[k].field_results)
                         = form_test_results[k].total_fields
                  /\ \A i \in 1..Len(form_test_results[k].field_results) :
                         ScenariosConserved(form_test_results[k].field_results[i])
    /\ pc = "done" => Len(form_test_results) = Len(page)

\* a page of two forms is done; the call on the first form threw, the second
\* was compiled from two fields with failed scenarios
C30_Witness ==
    /\ pc = "done"
    /\ Len(form_test_results) = 2
    /\ ~Compiled(form_test_results[1])
    /\ Compiled(form_test_results[2])
    /\ form_test_results[2].total_fields = 2
    /\ \E i \in 1..2 : \E j \in 1..Len(form_test_results[2].field_results[i].test_scenarios) :
           form_test_results[2].field_results[i].test_scenarios[j].failed

====
